---- MODULE Spec2Model ----
(***************************************************************************)
(* teslamate-hud: the telemetry relay (server.js), the browser-side Link   *)
(* Manager and State Reducer (services/mqttService.ts) and the App hooks   *)
(* that own them (App.tsx), as one state machine.                          *)
(*                                                                         *)
(* Times are milliseconds, as Date.now().  JavaScript numbers are held as  *)
(* tagged records (Num(n) / NaN) so that a record field has one shape;     *)
(* the payload universe holds integer numerals only.                       *)
(***************************************************************************)
EXTENDS Integers, Sequences, FiniteSets, TLC

VARIABLES
    now,            \* Date.now(), ms
    \* ---- server.js ----
    topicCache,     \* the Map, as its entries in insertion order
    clients,        \* wss.clients: socket slot -> "absent" | "open" | "closing"
    sent,           \* socket id -> frames handed to client.send / ws.send, in order
    nextRebroadcast,\* when the setInterval callback is next due
    received,       \* history: broker messages handled so far, in order
    joinedAt,       \* history: Len(received) when the socket connected (-1: not yet)
    joinedDown,     \* history: the broker link was down when the socket connected
    mqttConnected,  \* mqttClient.connected: the broker link is up
    subscription,   \* the topic pattern subscribed in the broker session ("": none)
    \* ---- App.tsx (React state, refs, localStorage) ----
    mounted,        \* the mount effects have run
    config,         \* useState config
    savedConfig,    \* localStorage 'mqtt_config'
    fetchState,     \* the /api/config request: "idle" | "pending" | "done"
    data,           \* useState data: the vehicle-state record
    isMqttConnected,
    connectionStatus,
    debugLogs,
    logKept,       \* whether a run keeps debugLogs in the state: the log is an
                    \* ordered history of every event, kept only by the runs
                    \* that are about it
    showSettings,
    isDemo,         \* useState isDemo
    demoElapsed,    \* useState demoElapsed, in ticks of the demo clock
    demoData,       \* useState demoData: the fields the demo overlays
    demoInterval,   \* demoIntervalRef: the interval of the demo clock is armed
    hudMode,        \* useState hudMode
    savedHudMode,   \* localStorage 'hud_mode' ("": no item)
    probe,          \* a call of a pure function: [fn, arg, done, out]
    handled,        \* history: the frames ws.onmessage was given, with the time
                    \* of each: [frame, at]; kept by the runs about the reducer
    \* ---- services/mqttService.ts and the browser ----
    services,       \* the MqttService objects made so far: [ws, config, reported];
                    \* ws = 0 is null; reported is history, the status the
                    \* service last gave onStatusChange ("" before the first)
    socks,          \* the WebSocket objects made so far: [owner, readyState, greeted]
    timers          \* pending setTimeout callbacks: [svc, due]

demoVars == <<isDemo, demoElapsed, demoData, demoInterval>>
hudVars == <<hudMode, savedHudMode>>
relayVars == <<topicCache, clients, sent, nextRebroadcast, received, joinedAt, joinedDown,
               mqttConnected, subscription>>
appVars == <<mounted, config, savedConfig, fetchState, data, isMqttConnected,
             connectionStatus, debugLogs, logKept, showSettings, handled, demoVars, hudVars,
             probe>>
linkVars == <<services, socks, timers>>
pageVars == <<appVars, linkVars>>
vars == <<now, relayVars, pageVars>>

----------------------------------------------------------------------------
(* Bounds of the model *)

MaxMsgs == 3        \* broker messages handled in one run
MaxClients == 1     \* client sockets that ever connect to the relay
MaxRebroadcasts == 1 \* rebroadcast periods the relay runs through
MaxServices == 2    \* MqttService objects the App makes in one run
MaxSockets == 3     \* WebSocket objects the page makes in one run
MaxLogSockets == 5  \* WebSocket objects of a run that keeps the debug log
MaxFrames == 3      \* telemetry frames one reducer run handles
MaxTicks == 1       \* minutes the wall clock advances in one reducer run
MaxStartDelay == 1  \* ticks of the demo clock after which no demo is started

SocketIds == 1..MaxClients

\* The client sockets of the runs about the fan-out: one more than SocketIds.
FanoutIds == 1..(MaxClients + 1)

----------------------------------------------------------------------------
(* JavaScript values *)

Num(n) == [nan |-> FALSE, v |-> n]
NaN == [nan |-> TRUE, v |-> 0]

Digits == <<"0", "1", "2", "3", "4", "5", "6", "7", "8", "9">>

IsDigit(ch) == \E i \in 1..10 : Digits[i] = ch

DigitValue(ch) == (CHOOSE i \in 1..10 : Digits[i] = ch) - 1

\* The length of the longest prefix of s[from..] made of digits.
RECURSIVE DigitRun(_, _)
DigitRun(s, from) ==
    IF from <= Len(s) /\ IsDigit(SubSeq(s, from, from))
    THEN 1 + DigitRun(s, from + 1)
    ELSE 0

RECURSIVE DigitsValue(_, _, _)
DigitsValue(s, from, n) ==
    IF n = 0 THEN 0
    ELSE DigitsValue(s, from, n - 1) * 10 + DigitValue(SubSeq(s, from + n - 1, from + n - 1))

\* parseFloat / parseInt on the payload universe (integer numerals): an
\* optional sign, then the longest run of digits; NaN when there is no digit.
ParseFloat(s) ==
    LET neg == Len(s) >= 1 /\ SubSeq(s, 1, 1) = "-"
        from == IF neg \/ (Len(s) >= 1 /\ SubSeq(s, 1, 1) = "+") THEN 2 ELSE 1
        n == DigitRun(s, from)
    IN  IF n = 0 THEN NaN
        ELSE Num((IF neg THEN -1 ELSE 1) * DigitsValue(s, from, n))

ParseInt(s) == ParseFloat(s)

\* new Date(ms).toISOString(): an injective rendering of the instant.
ToISOString(ms) == "ISO@" \o ToString(ms)

\* JSON values of a parsed active_route payload.
JStr(s) == [t |-> "str", s |-> s]
JNum(n) == [t |-> "num", n |-> n]
JNull == [t |-> "null"]
JUndefined == [t |-> "undefined"]
JObj(fields) == [t |-> "obj", o |-> fields]
SyntaxError == [t |-> "throw"]

ROUTE_OK == "{\"destination\":\"Amsterdam Centraal\",\"minutes_to_arrival\":28,\"error\":null}"
ROUTE_ERR == "{\"destination\":\"\",\"minutes_to_arrival\":0,\"error\":\"no_route\"}"
ROUTE_NO_MINS == "{\"destination\":\"Home\",\"minutes_to_arrival\":0,\"error\":null}"
ROUTE_BAD_MINS == "{\"destination\":\"Home\",\"minutes_to_arrival\":\"soon\",\"error\":null}"
ROUTE_ABSENT_MINS == "{\"destination\":\"Home\",\"error\":null}"
ROUTE_MALFORMED == "{\"destination\":"

\* JSON.parse on the active_route payloads of the model.
JsonParse(s) ==
    CASE s = ROUTE_OK ->
            JObj([destination |-> JStr("Amsterdam Centraal"),
                  minutes_to_arrival |-> JNum(28), error |-> JNull])
      [] s = ROUTE_ERR ->
            JObj([destination |-> JStr(""), minutes_to_arrival |-> JNum(0),
                  error |-> JStr("no_route")])
      [] s = ROUTE_NO_MINS ->
            JObj([destination |-> JStr("Home"), minutes_to_arrival |-> JNum(0),
                  error |-> JNull])
      [] s = ROUTE_ABSENT_MINS ->
            JObj([destination |-> JStr("Home"), error |-> JNull])
      [] s = ROUTE_BAD_MINS ->
            JObj([destination |-> JStr("Home"), minutes_to_arrival |-> JStr("soon"),
                  error |-> JNull])
      [] s = "null" -> JNull
      [] OTHER -> SyntaxError

\* route.<key>
Prop(route, key) ==
    IF route.t = "obj" /\ key \in DOMAIN route.o THEN route.o[key] ELSE JUndefined

\* JavaScript truthiness of a JSON value.
Truthy(v) ==
    CASE v.t = "str" -> v.s # ""
      [] v.t = "num" -> v.n # 0
      [] v.t = "obj" -> TRUE
      [] OTHER -> FALSE

\* parseFloat(v) of a JSON value: a number is itself, a string is parsed.
ParseFloatValue(v) ==
    CASE v.t = "num" -> Num(v.n)
      [] v.t = "str" -> ParseFloat(v.s)
      [] OTHER -> NaN

----------------------------------------------------------------------------
(* The vehicle-state record and the State Reducer *)

NullRoute == [t |-> "null"]

INITIAL_DATA ==
    [ speed |-> Num(0), batteryLevel |-> Num(0), power |-> Num(0), gear |-> "P",
      range |-> Num(0), outsideTemp |-> Num(0), insideTemp |-> Num(0),
      odometer |-> Num(0), state |-> "asleep", isLocked |-> TRUE,
      isCharging |-> FALSE, heading |-> Num(0),
      tpms_front_left |-> Num(0), tpms_front_right |-> Num(0),
      tpms_rear_left |-> Num(0), tpms_rear_right |-> Num(0),
      destination |-> "", estArrivalTime |-> "", timeToArrival |-> Num(0),
      activeRoute |-> NullRoute, elevation |-> Num(0), geofence |-> "",
      chargerPower |-> Num(0), timeToFullCharge |-> Num(0),
      chargeLimitSoc |-> Num(0) ]

\* `${config.topicPrefix}/cars/${config.carId}`
TopicPrefix(cfg) == cfg.topicPrefix \o "/cars/" \o ToString(cfg.carId)

\* A speed mapping without the `|| 0` default.
ParseFloatOrZero_NoDefault(payload) == ParseFloat(payload)

\* parseFloat(data) || 0
ParseFloatOrZero(payload) ==
    LET x == ParseFloat(payload) IN IF x.nan \/ x.v = 0 THEN Num(0) ELSE x

\* A locked mapping by JavaScript truthiness of the payload string.
LockedUpdates_Truthy(payload) == [isLocked |-> (payload # "")]

\* updates.isLocked = data === 'true'
LockedUpdates(payload) == [isLocked |-> (payload = "true")]

\* updates.state = data; updates.isCharging = data === 'charging'
StateUpdates(payload) == [state |-> payload, isCharging |-> (payload = "charging")]

\* One `if (topic === `${prefix}/<suffix>`) ...` line: fields put over updates u.
When(cond, fields, u) == IF cond THEN fields @@ u ELSE u

MS_PER_MINUTE == 60000

\* An arrival time derived from the epoch instead of the current time.
MinutesToArrivalUpdates_Epoch(payload, t) ==
    LET mins == ParseFloat(payload)
    IN  IF ~mins.nan /\ mins.v > 0
        THEN [timeToArrival |-> mins, estArrivalTime |-> ToISOString(mins.v * MS_PER_MINUTE)]
        ELSE [timeToArrival |-> mins]

\* A minutes branch that derives the arrival time for zero minutes too.
MinutesToArrivalUpdates_NonNegative(payload, t) ==
    LET mins == ParseFloat(payload)
    IN  IF ~mins.nan /\ mins.v >= 0
        THEN [timeToArrival |-> mins, estArrivalTime |-> ToISOString(t + mins.v * MS_PER_MINUTE)]
        ELSE [timeToArrival |-> mins]

\* The active_route_minutes_to_arrival branch.
MinutesToArrivalUpdates(payload, t) ==
    LET mins == ParseFloat(payload)
    IN  IF ~mins.nan /\ mins.v > 0
        THEN [timeToArrival |-> mins, estArrivalTime |-> ToISOString(t + mins.v * MS_PER_MINUTE)]
        ELSE [timeToArrival |-> mins]

\* A catch branch that leaves the updates as the try block left them.
ActiveRouteCatch_KeepPartial(u) == u

\* A catch branch that clears the arrival fields as the error branch does.
ActiveRouteCatch_ClearAll(u) ==
    [activeRoute |-> NullRoute, destination |-> "",
     timeToArrival |-> Num(0), estArrivalTime |-> ""] @@ u

\* The catch branch of the active_route try block.
ActiveRouteCatch(u) == [activeRoute |-> NullRoute, destination |-> ""] @@ u

\* An active_route branch that stores the route without touching the flat
\* navigation fields.
ActiveRouteUpdates_RouteOnly(payload, t) ==
    LET route == JsonParse(payload)
    IN  IF route.t \in {"throw", "null", "undefined"} THEN [activeRoute |-> NullRoute]
        ELSE IF Truthy(Prop(route, "error")) THEN [activeRoute |-> NullRoute]
        ELSE [activeRoute |-> route]

\* The active_route branch: the try block with its catch.
ActiveRouteUpdates(payload, t) ==
    LET route == JsonParse(payload)
    IN  IF route.t = "throw" THEN ActiveRouteCatch(<<>>)
        ELSE IF route.t # "obj" /\ route.t # "str" /\ route.t # "num"
        THEN ActiveRouteCatch(<<>>)      \* route.error of null: TypeError
        ELSE IF Truthy(Prop(route, "error"))
        THEN [activeRoute |-> NullRoute, destination |-> "",
              timeToArrival |-> Num(0), estArrivalTime |-> ""]
        ELSE LET u1 == [activeRoute |-> route]
                 u2 == IF Truthy(Prop(route, "destination"))
                       THEN [destination |-> Prop(route, "destination").s] @@ u1
                       ELSE u1
                 mins == ParseFloatValue(Prop(route, "minutes_to_arrival"))
             IN  IF ~Truthy(Prop(route, "minutes_to_arrival")) THEN u2
                 ELSE IF mins.nan
                 THEN \* toISOString of an invalid Date throws RangeError
                      ActiveRouteCatch([timeToArrival |-> mins] @@ u2)
                 ELSE [timeToArrival |-> mins,
                       estArrivalTime |-> ToISOString(t + mins.v * MS_PER_MINUTE)] @@ u2

\* The updates object ws.onmessage builds for a telemetry frame at time t.
Updates(cfg, topic, payload, t) ==
    LET prefix == TopicPrefix(cfg)
        Is(suffix) == topic = prefix \o "/" \o suffix
        u01 == When(Is("speed"), [speed |-> ParseFloatOrZero(payload)], <<>>)
        u02 == When(Is("battery_level"), [batteryLevel |-> ParseInt(payload)], u01)
        u03 == When(Is("power"), [power |-> ParseFloat(payload)], u02)
        u04 == When(Is("shift_state"), [gear |-> payload], u03)
        u05 == When(Is("ideal_battery_range_km"), [range |-> ParseFloat(payload)], u04)
        u06 == When(Is("outside_temp"), [outsideTemp |-> ParseFloat(payload)], u05)
        u07 == When(Is("inside_temp"), [insideTemp |-> ParseFloat(payload)], u06)
        u08 == When(Is("odometer"), [odometer |-> ParseFloat(payload)], u07)
        u09 == When(Is("heading"), [heading |-> ParseFloat(payload)], u08)
        u10 == When(Is("elevation"), [elevation |-> ParseFloat(payload)], u09)
        u11 == When(Is("geofence"), [geofence |-> payload], u10)
        u12 == When(Is("state"), StateUpdates(payload), u11)
        u13 == When(Is("locked"), LockedUpdates(payload), u12)
        u14 == When(Is("charger_power"), [chargerPower |-> ParseFloat(payload)], u13)
        u15 == When(Is("time_to_full_charge"),
                    [timeToFullCharge |-> ParseFloat(payload)], u14)
        u16 == When(Is("charge_limit_soc"), [chargeLimitSoc |-> ParseInt(payload)], u15)
        u17 == When(Is("destination"), [destination |-> payload], u16)
        u18 == When(Is("est_arrival_time"), [estArrivalTime |-> payload], u17)
        u19 == When(Is("time_to_arrival"), [timeToArrival |-> ParseFloat(payload)], u18)
        u20 == When(Is("active_route_destination"), [destination |-> payload], u19)
        u21 == IF Is("active_route_minutes_to_arrival")
               THEN MinutesToArrivalUpdates(payload, t) @@ u20 ELSE u20
        u22 == IF Is("active_route") THEN ActiveRouteUpdates(payload, t) @@ u21 ELSE u21
    IN  u22

\* An updateData that merges the updates over the default record.
updateData_Replace(prev, updates) == updates @@ INITIAL_DATA

\* updateData: setData(prev => ({ ...prev, ...updates }))
updateData(prev, updates) == updates @@ prev

IsStatus(frame) == "type" \in DOMAIN frame /\ frame.type = "status"

\* ws.onmessage applied to record prev: a status frame returns early, an
\* empty updates object does not reach onDataUpdate.
OnMessageRecord(cfg, prev, frame, t) ==
    IF IsStatus(frame) THEN prev
    ELSE LET u == Updates(cfg, frame.topic, frame.data, t)
         IN  IF DOMAIN u # {} THEN updateData(prev, u) ELSE prev

\* The record of a client that started from prev and handled frames in order,
\* all at wall-clock time t.
RECURSIVE Reduce(_, _, _, _)
Reduce(cfg, prev, frames, t) ==
    IF frames = <<>> THEN prev
    ELSE Reduce(cfg, OnMessageRecord(cfg, prev, Head(frames), t), Tail(frames), t)

----------------------------------------------------------------------------
(* server.js: the relay *)

MQTT_PREFIX == "teslamate"
CAR_ID == "1"
REBROADCAST_MS == 60000

\* What /api/config hands the page: the configuration the clients reduce with.
ServerConfig == [topicPrefix |-> MQTT_PREFIX, carId |-> 1, proxyUrl |-> ""]

\* `${MQTT_PREFIX}/cars/${CAR_ID}/#`
TopicPattern == MQTT_PREFIX \o "/cars/" \o CAR_ID \o "/#"

RelayTopic(suffix) == MQTT_PREFIX \o "/cars/" \o CAR_ID \o "/" \o suffix

\* The broker messages the model feeds the relay: topics under the
\* subscription `${MQTT_PREFIX}/cars/${CAR_ID}/#`, one of them unknown to clients.
RelayInputs ==
    { [topic |-> RelayTopic("destination"), data |-> "A"],
      [topic |-> RelayTopic("destination"), data |-> "B"],
      [topic |-> RelayTopic("active_route_destination"), data |-> "B"] }

STATUS_FRAME == [type |-> "status", msg |-> "Linked to Tesla Proxy"]

Envelope(topic, payload, timestamp) ==
    [topic |-> topic, data |-> payload, timestamp |-> timestamp]

CacheHas(cache, topic) == \E i \in 1..Len(cache) : cache[i].topic = topic

\* A cache that appends every message instead of overwriting its topic's entry.
MapSet_Append(cache, topic, payload) ==
    Append(cache, [topic |-> topic, data |-> payload])

\* topicCache.set(topic, dataString): Map.set keeps an existing key's place.
MapSet(cache, topic, payload) ==
    IF CacheHas(cache, topic)
    THEN [i \in 1..Len(cache) |->
            IF cache[i].topic = topic THEN [topic |-> topic, data |-> payload]
            ELSE cache[i]]
    ELSE Append(cache, [topic |-> topic, data |-> payload])

\* topicCache.forEach((data, topic) => send({topic, data, timestamp}))
CacheFrames(cache, timestamp) ==
    [i \in 1..Len(cache) |-> Envelope(cache[i].topic, cache[i].data, timestamp)]

\* A connection handler that replays the cache before it sends the status frame.
ConnectionFrames_StatusLast(cache, timestamp) ==
    CacheFrames(cache, timestamp) \o <<STATUS_FRAME>>

\* A connection handler that sends the status frame and no replay.
ConnectionFrames_StatusOnly(cache, timestamp) == <<STATUS_FRAME>>

\* wss.on('connection'): the frames ws.send is called with, in order.
ConnectionFrames(cache, timestamp) ==
    <<STATUS_FRAME>> \o CacheFrames(cache, timestamp)

\* A live relay that leaves out the readyState test.
LiveRelay_AnyState(cl, out, frame) ==
    [c \in DOMAIN cl |-> IF cl[c] # "absent" THEN Append(out[c], frame) ELSE out[c]]

\* A live relay whose loop ends at the first client that is not open.
LiveRelay_StopAtClosed(cl, out, frame) ==
    [c \in DOMAIN cl |->
        IF \A d \in DOMAIN cl : d <= c => cl[d] = "open"
        THEN Append(out[c], frame) ELSE out[c]]

\* wss.clients.forEach(client => { if (client.readyState === 1) client.send(payload) })
LiveRelay(cl, out, frame) ==
    [c \in DOMAIN cl |-> IF cl[c] = "open" THEN Append(out[c], frame) ELSE out[c]]

\* A rebroadcast that leaves out the readyState test.
RebroadcastRelay_AnyState(cl, out, cache, timestamp) ==
    [c \in DOMAIN cl |->
        IF cl[c] # "absent" THEN out[c] \o CacheFrames(cache, timestamp) ELSE out[c]]

\* A rebroadcast that resends only the oldest entry of the cache.
RebroadcastRelay_OldestOnly(cl, out, cache, timestamp) ==
    [c \in DOMAIN cl |->
        IF cl[c] = "open"
        THEN out[c] \o SubSeq(CacheFrames(cache, timestamp), 1, IF Len(cache) = 0 THEN 0 ELSE 1)
        ELSE out[c]]

\* The setInterval callback's sends.
RebroadcastRelay(cl, out, cache, timestamp) ==
    [c \in DOMAIN cl |->
        IF cl[c] = "open" THEN out[c] \o CacheFrames(cache, timestamp) ELSE out[c]]

\* mqttClient.on('message', (topic, message) => ...)
Message(topic, payload) ==
    /\ mqttConnected
    /\ subscription = TopicPattern
    /\ Len(received) < MaxMsgs
    /\ topicCache' = MapSet(topicCache, topic, payload)
    /\ sent' = LiveRelay(clients, sent, Envelope(topic, payload, now))
    /\ received' = Append(received, [topic |-> topic, data |-> payload, at |-> now])
    /\ UNCHANGED <<now, clients, nextRebroadcast, joinedAt, joinedDown, mqttConnected, subscription, pageVars>>

\* wss.on('connection', (ws, req) => ...): the socket is in wss.clients and OPEN.
Connection(c) ==
    /\ clients[c] = "absent"
    /\ clients' = [clients EXCEPT ![c] = "open"]
    /\ sent' = [sent EXCEPT ![c] = sent[c] \o ConnectionFrames(topicCache, now)]
    /\ joinedAt' = [joinedAt EXCEPT ![c] = Len(received)]
    /\ joinedDown' = [joinedDown EXCEPT ![c] = ~mqttConnected]
    /\ UNCHANGED <<now, topicCache, nextRebroadcast, received, mqttConnected, subscription, pageVars>>

\* setInterval(() => ..., 60 * 1000): the callback runs when the clock reaches
\* the next period.
Rebroadcast ==
    /\ nextRebroadcast <= MaxRebroadcasts * REBROADCAST_MS
    /\ now' = nextRebroadcast
    /\ sent' = RebroadcastRelay(clients, sent, topicCache, now')
    /\ nextRebroadcast' = nextRebroadcast + REBROADCAST_MS
    /\ UNCHANGED <<topicCache, clients, received, joinedAt, joinedDown, mqttConnected, subscription, pageVars>>

\* A client socket starts closing: it stays in wss.clients, readyState CLOSING.
ClientClosing(c) ==
    /\ clients[c] = "open"
    /\ clients' = [clients EXCEPT ![c] = "closing"]
    /\ UNCHANGED <<now, topicCache, sent, nextRebroadcast, received, joinedAt, joinedDown, mqttConnected, subscription, pageVars>>

\* A client socket is closed: the library drops it from wss.clients, and the
\* socket object with what was sent on it is gone.
ClientClosed(c) ==
    /\ clients[c] = "closing"
    /\ clients' = [clients EXCEPT ![c] = "absent"]
    /\ sent' = [sent EXCEPT ![c] = <<>>]
    /\ joinedAt' = [joinedAt EXCEPT ![c] = -1]
    /\ joinedDown' = [joinedDown EXCEPT ![c] = FALSE]
    /\ UNCHANGED <<now, topicCache, nextRebroadcast, received, mqttConnected, subscription, pageVars>>

\* mqttClient.on('connect'): the broker link is up and the subscription made;
\* the library reconnects by itself (reconnectPeriod) after a loss.
MqttConnect ==
    /\ ~mqttConnected
    /\ mqttConnected' = TRUE
    /\ subscription' = TopicPattern
    /\ UNCHANGED <<now, topicCache, clients, sent, nextRebroadcast, received,
                   joinedAt, joinedDown, pageVars>>

\* The broker link is lost: server.js has no handler for it, and neither the
\* cache nor the rebroadcast interval is touched.
MqttClose ==
    /\ mqttConnected
    /\ mqttConnected' = FALSE
    /\ subscription' = ""
    /\ UNCHANGED <<now, topicCache, clients, sent, nextRebroadcast, received,
                   joinedAt, joinedDown, pageVars>>

\* mqttClient.on('error'): a failed connection attempt is logged, and the
\* library goes on retrying; nothing of the relay changes.
MqttError ==
    /\ ~mqttConnected
    /\ UNCHANGED vars

----------------------------------------------------------------------------
(* services/mqttService.ts: the Link Manager, and the browser's sockets *)

RECONNECT_MS == 5000
LOG_KEEP == 20

\* window.location of the page.
WindowLocation == [protocol |-> "http:", host |-> "hud.local"]

StartsWith(s, p) == Len(s) >= Len(p) /\ SubSeq(s, 1, Len(p)) = p

\* A ResolveUrl that never upgrades the scheme on an https page.
ResolveUrl_AlwaysWs(proxyUrl, location) ==
    IF proxyUrl = ""
    THEN "ws://" \o location.host \o "/ws"
    ELSE IF ~StartsWith(proxyUrl, "ws://") /\ ~StartsWith(proxyUrl, "wss://")
    THEN IF StartsWith(proxyUrl, "/")
         THEN "ws://" \o location.host \o proxyUrl
         ELSE "ws://" \o proxyUrl
    ELSE proxyUrl

\* The address connect() resolves from config.proxyUrl.
ResolveUrl(proxyUrl, location) ==
    LET protocol == IF location.protocol = "https:" THEN "wss:" ELSE "ws:"
    IN  IF proxyUrl = ""
        THEN protocol \o "//" \o location.host \o "/ws"
        ELSE IF ~StartsWith(proxyUrl, "ws://") /\ ~StartsWith(proxyUrl, "wss://")
        THEN IF StartsWith(proxyUrl, "/")
             THEN protocol \o "//" \o location.host \o proxyUrl
             ELSE protocol \o "//" \o proxyUrl
        ELSE proxyUrl

\* new WebSocket(url) throws a SyntaxError on a URL that does not parse: here,
\* one with a space in it.
WebSocketThrows(url) == \E i \in 1..Len(url) : SubSeq(url, i, i) = " "

\* The browser-side state the Link Manager's methods and handlers act on.
Page ==
    [ services |-> services, socks |-> socks, timers |-> timers,
      connectionStatus |-> connectionStatus, debugLogs |-> debugLogs,
      logKept |-> logKept,
      data |-> data, isMqttConnected |-> isMqttConnected ]

\* An addDebugLog that keeps the first entries instead of the last ones.
addDebugLog_KeepOldest(st, msg) ==
    LET all == Append(st.debugLogs, msg)
    IN  IF ~st.logKept THEN st
        ELSE [st EXCEPT !.debugLogs =
                IF Len(all) > LOG_KEEP THEN SubSeq(all, 1, LOG_KEEP) ELSE all]

\* addDebugLog: setDebugLogs(prev => [...prev, msg].slice(-20))
addDebugLog(st, msg) ==
    LET all == Append(st.debugLogs, msg)
    IN  IF ~st.logKept THEN st
        ELSE [st EXCEPT !.debugLogs =
                IF Len(all) > LOG_KEEP
                THEN SubSeq(all, Len(all) - LOG_KEEP + 1, Len(all))
                ELSE all]

\* MqttService.log: `[${new Date().toLocaleTimeString()}] ${msg}` to onLog.
log(st, msg, t) == addDebugLog(st, "[" \o ToString(t \div 1000) \o "s] " \o msg)

\* this.onStatusChange?.(status): setConnectionStatus
onStatusChange(st, m, status) ==
    [st EXCEPT !.connectionStatus = status, !.services[m].reported = status]

\* ws.close(): a socket that is connecting or open starts closing.
close(st, s) ==
    IF st.socks[s].readyState \in {"CONNECTING", "OPEN"}
    THEN [st EXCEPT !.socks[s].readyState = "CLOSING"]
    ELSE st

\* MqttService.connect(config), called on service m at time t.
connect(st, m, t) ==
    LET cfg == st.services[m].config
        st1 == IF st.services[m].ws # 0 THEN close(st, st.services[m].ws) ELSE st
        wsUrl == ResolveUrl(cfg.proxyUrl, WindowLocation)
        st2 == log(st1, "Attempting connection: " \o wsUrl, t)
        st3 == onStatusChange(st2, m, "connecting")
    IN  IF WebSocketThrows(wsUrl)
        THEN log(st3, "Connection error: Failed to construct 'WebSocket'", t)
        ELSE [st3 EXCEPT
                !.socks = Append(@, [owner |-> m, readyState |-> "CONNECTING",
                                     greeted |-> FALSE]),
                !.services[m].ws = Len(st3.socks) + 1]

\* MqttService.disconnect(), called on service m at time t.
disconnect(st, m, t) ==
    LET st1 == log(st, "Disconnecting Proxy...", t)
        st2 == IF st1.services[m].ws # 0
               THEN [close(st1, st1.services[m].ws) EXCEPT !.services[m].ws = 0]
               ELSE st1
    IN  onStatusChange(st2, m, "disconnected")

\* An onclose that schedules the reconnect without reporting 'disconnected'.
onclose_NoReport(st, m, code, t) ==
    [st EXCEPT !.timers = Append(@, [svc |-> m, due |-> t + RECONNECT_MS])]

\* ws.onclose of a socket of service m: log, report, schedule the reconnect.
onclose(st, m, code, t) ==
    LET st1 == log(st, "Proxy disconnected (Code: " \o ToString(code)
                       \o "). Retrying in 5s...", t)
        st2 == onStatusChange(st1, m, "disconnected")
    IN  [st2 EXCEPT !.timers = Append(@, [svc |-> m, due |-> t + RECONNECT_MS])]

\* ws.onerror
onerror(st, t) == log(st, "WebSocket Error (Check Reverse Proxy /ws mapping)", t)

\* ws.onopen of a socket of service m
onopen(st, m, t) ==
    onStatusChange(log(st, "Linked to HUD Proxy Server", t), m, "connected")

\* An onmessage that calls onDataUpdate with an empty updates object too.
onmessage_NoGuard(st, m, frame, t) ==
    IF IsStatus(frame) THEN log(st, "Status: " \o frame.msg, t)
    ELSE LET u == Updates(st.services[m].config, frame.topic, frame.data, t)
         IN  [st EXCEPT !.data = updateData(@, u), !.isMqttConnected = TRUE]

\* An onmessage that takes the envelope's timestamp for the current time.
onmessage_EnvelopeClock(st, m, frame, t) ==
    IF IsStatus(frame) THEN log(st, "Status: " \o frame.msg, t)
    ELSE LET u == Updates(st.services[m].config, frame.topic, frame.data, frame.timestamp)
         IN  IF DOMAIN u # {}
             THEN [st EXCEPT !.data = updateData(@, u), !.isMqttConnected = TRUE]
             ELSE st

\* ws.onmessage of a socket of service m, for a parsed frame.
onmessage(st, m, frame, t) ==
    IF IsStatus(frame) THEN log(st, "Status: " \o frame.msg, t)
    ELSE LET u == Updates(st.services[m].config, frame.topic, frame.data, t)
         IN  IF DOMAIN u # {}
             THEN [st EXCEPT !.data = updateData(@, u), !.isMqttConnected = TRUE]
             ELSE st

\* The variables the Link Manager acts on take their values from st.
SetPage(st) ==
    /\ services' = st.services
    /\ socks' = st.socks
    /\ timers' = st.timers
    /\ connectionStatus' = st.connectionStatus
    /\ debugLogs' = st.debugLogs
    /\ data' = st.data
    /\ isMqttConnected' = st.isMqttConnected

\* The WebSocket objects one run may make.
SocketCap == IF logKept THEN MaxLogSockets ELSE MaxSockets

\* connect() makes a WebSocket unless the constructor throws.
MakesSocket(m) ==
    ~WebSocketThrows(ResolveUrl(services[m].config.proxyUrl, WindowLocation))

\* The browser fires open on a connecting socket.
SocketOpen(s) ==
    /\ socks[s].readyState = "CONNECTING"
    /\ SetPage(onopen([Page EXCEPT !.socks[s].readyState = "OPEN"], socks[s].owner, now))
    /\ UNCHANGED <<now, relayVars, mounted, config, savedConfig, fetchState,
                   logKept, handled, demoVars, hudVars, probe, showSettings>>

\* The telemetry frames the relay hands the page in the model.
PageFrames ==
    { Envelope(RelayTopic("speed"), "88", 0) }

\* The browser fires message on an open socket: the relay's status frame
\* comes first and once (server.js, wss.on('connection')), telemetry after it.
SocketMessage(s, frame) ==
    /\ socks[s].readyState = "OPEN"
    /\ IsStatus(frame) = ~socks[s].greeted
    /\ SetPage(onmessage([Page EXCEPT !.socks[s].greeted = TRUE],
                         socks[s].owner, frame, now))
    /\ UNCHANGED <<now, relayVars, mounted, config, savedConfig, fetchState,
                   logKept, handled, demoVars, hudVars, probe, showSettings>>

\* The browser fires close on a socket: after ws.close() (code 1005), or
\* because the connection went away (code 1006).
SocketClose(s) ==
    /\ socks[s].readyState \in {"CONNECTING", "OPEN", "CLOSING"}
    /\ SetPage(onclose([Page EXCEPT !.socks[s].readyState = "CLOSED"], socks[s].owner,
                       IF socks[s].readyState = "CLOSING" THEN 1005 ELSE 1006, now))
    /\ UNCHANGED <<now, relayVars, mounted, config, savedConfig, fetchState,
                   logKept, handled, demoVars, hudVars, probe, showSettings>>

\* The connection fails: the browser fires error, then close, in one task.
SocketError(s) ==
    /\ socks[s].readyState \in {"CONNECTING", "OPEN"}
    /\ SetPage(onclose(onerror([Page EXCEPT !.socks[s].readyState = "CLOSED"], now),
                       socks[s].owner, 1006, now))
    /\ UNCHANGED <<now, relayVars, mounted, config, savedConfig, fetchState,
                   logKept, handled, demoVars, hudVars, probe, showSettings>>

\* A pending setTimeout(() => this.connect(config), 5000) runs when the clock
\* reaches its due time; timers run in the order they come due.
TimerFire(i) ==
    /\ i \in 1..Len(timers)
    /\ now' = IF timers[i].due > now THEN timers[i].due ELSE now
    /\ \A j \in 1..Len(timers) : timers[j].due >= timers[i].due
    /\ \A j \in 1..(i - 1) : timers[j].due > timers[i].due
    /\ MakesSocket(timers[i].svc) => Len(socks) < SocketCap
    /\ SetPage(connect([Page EXCEPT !.timers =
                            SubSeq(timers, 1, i - 1) \o SubSeq(timers, i + 1, Len(timers))],
                       timers[i].svc, now'))
    /\ UNCHANGED <<relayVars, mounted, config, savedConfig, fetchState,
                   logKept, handled, demoVars, hudVars, probe, showSettings>>

\* connect(config) is called on service m by its owner.
ConnectCall(m) ==
    /\ m \in 1..Len(services)
    /\ MakesSocket(m) => Len(socks) < SocketCap
    /\ SetPage(connect(Page, m, now))
    /\ UNCHANGED <<now, relayVars, mounted, config, savedConfig, fetchState,
                   logKept, handled, demoVars, hudVars, probe, showSettings>>

\* disconnect() is called on service m by its owner.
DisconnectCall(m) ==
    /\ m \in 1..Len(services)
    /\ SetPage(disconnect(Page, m, now))
    /\ UNCHANGED <<now, relayVars, mounted, config, savedConfig, fetchState,
                   logKept, handled, demoVars, hudVars, probe, showSettings>>

\* A telemetry frame of the relay for car 1 at time 0 (the reducer does not
\* read the timestamp).
Telemetry(suffix, payload) == Envelope(RelayTopic(suffix), payload, 0)

\* The frames the reducer runs are fed: the three navigation families, two
\* plain fields, a non-numeric speed, a suffix outside the table and a topic
\* of another car.
ReducerFrames ==
    { Telemetry("destination", "A"),
      Telemetry("est_arrival_time", "2026-01-01T10:00:00Z"),
      Telemetry("time_to_arrival", "15"),
      Telemetry("active_route_destination", "B"),
      Telemetry("active_route_minutes_to_arrival", "15"),
      Telemetry("active_route_minutes_to_arrival", "14"),
      Telemetry("active_route", ROUTE_OK),
      Telemetry("active_route", ROUTE_ERR),
      Telemetry("active_route", ROUTE_NO_MINS),
      Telemetry("active_route", ROUTE_MALFORMED),
      Telemetry("battery_level", "88"),
      Telemetry("shift_state", "D"),
      Telemetry("speed", "NaN-ish"),
      Telemetry("tpms_pressure_fl", "3"),
      Envelope(MQTT_PREFIX \o "/cars/2/speed", "50", 0) }

\* The browser fires message on the page's open socket, and the frame and
\* its time are kept: the relay's status frame first, telemetry after it.
ReducerMessage(s, frame) ==
    /\ socks[s].readyState = "OPEN"
    /\ IsStatus(frame) = ~socks[s].greeted
    /\ Len(handled) < MaxFrames + 1
    /\ SetPage(onmessage([Page EXCEPT !.socks[s].greeted = TRUE],
                         socks[s].owner, frame, now))
    /\ handled' = Append(handled, [frame |-> frame, at |-> now])
    /\ UNCHANGED <<now, relayVars, mounted, config, savedConfig, fetchState,
                   logKept, showSettings, demoVars, hudVars, probe>>

\* A minute goes by on the page's clock.
ReducerTick ==
    /\ now < MaxTicks * MS_PER_MINUTE
    /\ now' = now + MS_PER_MINUTE
    /\ UNCHANGED <<relayVars, pageVars>>

----------------------------------------------------------------------------
(* services/demoService.ts: the demo keyframes and their interpolation *)

\* A number with decimals, as digits / scale (24.85 is 2485 / 100).
JDecimal(digits, scale) == [t |-> "num", digits |-> digits, scale |-> scale]

\* The activeRoute object of the navigation keyframes; miles and minutes in
\* hundredths.
DemoRoute(energy, miles, minutes, delay) ==
    JObj([destination |-> JStr("Amsterdam Centraal"),
          energy_at_arrival |-> JNum(energy),
          miles_to_arrival |-> JDecimal(miles, 100),
          minutes_to_arrival |-> JDecimal(minutes, 100),
          traffic_minutes_delay |-> JNum(delay),
          location |-> JObj([latitude |-> JDecimal(523791, 10000),
                                 longitude |-> JDecimal(48997, 10000)]),
          error |-> JNull])

\* DEMO_KEYFRAMES: t in seconds, data as JSON values.
DEMO_KEYFRAMES ==
    << [t |-> 0,
        data |-> [speed |-> JNum(0), power |-> JNum(0), gear |-> JStr("P"),
                  batteryLevel |-> JNum(88), range |-> JNum(410),
                  outsideTemp |-> JNum(4), insideTemp |-> JNum(19),
                  heading |-> JNum(0), state |-> JStr("online"),
                  destination |-> JStr(""), activeRoute |-> JNull]],
       [t |-> 5,
        data |-> [speed |-> JNum(0), power |-> JNum(0), gear |-> JStr("D"),
                  batteryLevel |-> JNum(88), range |-> JNum(410),
                  outsideTemp |-> JNum(4), heading |-> JNum(42),
                  destination |-> JStr(""), activeRoute |-> JNull]],
       [t |-> 8,
        data |-> [speed |-> JNum(52), power |-> JNum(45), gear |-> JStr("D"),
                  batteryLevel |-> JNum(87), range |-> JNum(408),
                  outsideTemp |-> JNum(4), heading |-> JNum(42),
                  destination |-> JStr(""), activeRoute |-> JNull]],
       [t |-> 12,
        data |-> [speed |-> JNum(122), power |-> JNum(28), gear |-> JStr("D"),
                  batteryLevel |-> JNum(85), range |-> JNum(395),
                  outsideTemp |-> JNum(5), heading |-> JNum(87),
                  destination |-> JStr(""),
                  activeRoute |-> DemoRoute(62, 2485, 2850, 7)]],
       [t |-> 17,
        data |-> [speed |-> JNum(130), power |-> JNum(22), gear |-> JStr("D"),
                  batteryLevel |-> JNum(80), range |-> JNum(370),
                  outsideTemp |-> JNum(5), heading |-> JNum(91),
                  activeRoute |-> DemoRoute(62, 1240, 1420, 7)]],
       [t |-> 22,
        data |-> [speed |-> JNum(30), power |-> JNum(-38), gear |-> JStr("D"),
                  batteryLevel |-> JNum(79), range |-> JNum(366),
                  outsideTemp |-> JNum(5), heading |-> JNum(105),
                  activeRoute |-> DemoRoute(63, 310, 550, 0)]],
       [t |-> 26,
        data |-> [speed |-> JNum(0), power |-> JNum(0), gear |-> JStr("P"),
                  batteryLevel |-> JNum(18), range |-> JNum(62),
                  outsideTemp |-> JNum(7), heading |-> JNum(0),
                  destination |-> JStr(""), activeRoute |-> JNull]],
       [t |-> 28,
        data |-> [speed |-> JNum(8), power |-> JNum(12), gear |-> JStr("R"),
                  batteryLevel |-> JNum(18), range |-> JNum(62),
                  outsideTemp |-> JNum(7), heading |-> JNum(270),
                  destination |-> JStr(""), activeRoute |-> JNull]],
       [t |-> 30,
        data |-> [speed |-> JNum(0), power |-> JNum(0), gear |-> JStr("P"),
                  batteryLevel |-> JNum(18), range |-> JNum(62),
                  outsideTemp |-> JNum(7), heading |-> JNum(0),
                  destination |-> JStr(""), activeRoute |-> JNull]] >>

DEMO_DURATION == 30
TICKS_PER_SECOND == 10

\* a + (b - a) * t for t = n / d, as the fraction num / den.
lerp(a, b, n, d) == [num |-> a * d + (b - a) * n, den |-> d]

\* Math.round of the fraction q (den > 0): halves go up.
MathRound(q) == (2 * q.num + q.den) \div (2 * q.den)

\* An interpolateField that snaps to the later value only after the midpoint.
interpolateField_SnapLate(a, b, n, d) ==
    IF a.t = "num" /\ b.t = "num" THEN JNum(MathRound(lerp(a.n, b.n, n, d)))
    ELSE IF 2 * n <= d THEN a ELSE b

\* interpolateField(a, b, t) for t = n / d.
interpolateField(a, b, n, d) ==
    IF a.t = "num" /\ b.t = "num" THEN JNum(MathRound(lerp(a.n, b.n, n, d)))
    ELSE IF 2 * n < d THEN a ELSE b

\* getDemoState(elapsedSeconds) for elapsedSeconds = e / TICKS_PER_SECOND.
getDemoState(e) ==
    LET kf == DEMO_KEYFRAMES
        At(i) == kf[i].t * TICKS_PER_SECOND
    IN  IF e <= At(1) THEN kf[1].data
        ELSE IF e >= At(Len(kf)) THEN kf[Len(kf)].data
        ELSE LET i == CHOOSE k \in 2..Len(kf) :
                          At(k) >= e /\ \A j \in 2..(k - 1) : At(j) < e
                 prev == kf[i - 1]
                 next == kf[i]
                 span == At(i) - At(i - 1)
                 n == IF span = 0 THEN 1 ELSE e - At(i - 1)
                 d == IF span = 0 THEN 1 ELSE span
             IN  [key \in DOMAIN prev.data \cup DOMAIN next.data |->
                    IF key \notin DOMAIN prev.data THEN next.data[key]
                    ELSE IF key \notin DOMAIN next.data THEN prev.data[key]
                    ELSE interpolateField(prev.data[key], next.data[key], n, d)]

----------------------------------------------------------------------------
(* Calls of the pure functions *)

\* window.location of the pages the address is resolved on.
Locations ==
    { [protocol |-> pr, host |-> h] :
        pr \in {"http:", "https:"}, h \in {"hud.local", "hud.local:8443", "192.168.1.10"} }

\* Values of config.proxyUrl.
ProxyUrls ==
    { "", "ws://relay.example/ws", "wss://relay.example/ws", "wss://relay.example:8443/hud",
      "/ws", "/hud/ws", "relay.example/ws", "relay.example:8080/ws", "wsrelay.example/ws" }

\* The elapsed demo times, in ticks of 100 ms: from before the first
\* keyframe to after the last.
ElapsedTicks == (0 - TICKS_PER_SECOND)..((DEMO_DURATION + 1) * TICKS_PER_SECOND)

Call(fn, arg) == [fn |-> fn, arg |-> arg, done |-> FALSE, out |-> <<>>]

\* connect() resolves the socket address.
ResolveUrlCall ==
    /\ probe.fn = "ResolveUrl"
    /\ ~probe.done
    /\ probe' = [probe EXCEPT !.done = TRUE,
                              !.out = ResolveUrl(probe.arg.proxyUrl, probe.arg.location)]
    /\ UNCHANGED <<now, relayVars, mounted, config, savedConfig, fetchState, data,
                   isMqttConnected, connectionStatus, debugLogs, logKept,
                   showSettings, handled, demoVars, hudVars, linkVars>>

\* The demo clock asks for the state at an elapsed time.
GetDemoStateCall ==
    /\ probe.fn = "getDemoState"
    /\ ~probe.done
    /\ probe' = [probe EXCEPT !.done = TRUE, !.out = getDemoState(probe.arg.elapsed)]
    /\ UNCHANGED <<now, relayVars, mounted, config, savedConfig, fetchState, data,
                   isMqttConnected, connectionStatus, debugLogs, logKept,
                   showSettings, handled, demoVars, hudVars, linkVars>>

----------------------------------------------------------------------------
(* App.tsx: the hooks that own the Link Manager *)

\* The configurations localStorage 'mqtt_config' may hold when the page loads:
\* the one a relay without PUBLIC_WS_URL hands out, and one saved with an
\* address that does not parse.
SavedConfigs ==
    { [proxyUrl |-> "", topicPrefix |-> "teslamate", carId |-> 1],
      [proxyUrl |-> "hud local/ws", topicPrefix |-> "teslamate", carId |-> 1],
      [proxyUrl |-> "ws://old.example/ws", topicPrefix |-> "old", carId |-> 2] }

\* The MqttService effect body: a new service, connected with cfg.
StartService(st, cfg, t) ==
    connect([st EXCEPT !.services = Append(@, [ws |-> 0, config |-> cfg, reported |-> ""])],
            Len(st.services) + 1, t)

\* The MqttService effect run again for a new config: the cleanup of the last
\* run (service.disconnect()), then the body.
RestartService(st, cfg, t) ==
    StartService(disconnect(st, Len(st.services), t), cfg, t)

\* The mount effects: fetchConfig() is started, the first service connects.
Mount ==
    /\ ~mounted
    /\ mounted' = TRUE
    /\ fetchState' = "pending"
    /\ SetPage(StartService(Page, config, now))
    /\ UNCHANGED <<now, relayVars, config, savedConfig, logKept, handled, demoVars, hudVars, probe, showSettings>>

\* A merge in which the local values win over the server's.
MergeConfig_LocalWins(prev, serverConfig) == prev @@ serverConfig

\* { ...prev, ...serverConfig }
MergeConfig(prev, serverConfig) == serverConfig @@ prev

\* fetchConfig: /api/config answered; the server's values are merged over the
\* local ones, persisted, and the changed config re-runs the service effect.
FetchConfigOk ==
    /\ fetchState = "pending"
    /\ Len(services) < MaxServices
    /\ MakesSocket(Len(services)) => Len(socks) < SocketCap
    /\ LET merged == MergeConfig(config, ServerConfig)
           st1 == addDebugLog(Page, "System: Fetched server environment (Prefix: "
                      \o ServerConfig.topicPrefix \o ", Car: "
                      \o ToString(ServerConfig.carId) \o ")")
       IN  /\ config' = merged
           /\ savedConfig' = merged
           /\ SetPage(RestartService(st1, merged, now))
    /\ fetchState' = "done"
    /\ UNCHANGED <<now, relayVars, mounted, logKept, handled, demoVars, hudVars, probe, showSettings>>

\* A flip control that only toggles between NORMAL and MIRROR.
NextHudMode_Toggle(prev) == IF prev = "NORMAL" THEN "MIRROR" ELSE "NORMAL"

\* The mode cycleHudMode computes from prev: NORMAL unless prev is NORMAL
\* or MIRROR.
NextHudMode(prev) ==
    IF prev = "NORMAL" THEN "MIRROR"
    ELSE IF prev = "MIRROR" THEN "FLIPPED"
    ELSE "NORMAL"

\* cycleHudMode: the flip control is pressed.
CycleHudMode ==
    /\ mounted
    /\ hudMode' = NextHudMode(hudMode)
    /\ savedHudMode' = NextHudMode(hudMode)
    /\ UNCHANGED <<now, relayVars, mounted, config, savedConfig, fetchState, data,
                   isMqttConnected, connectionStatus, debugLogs, logKept,
                   showSettings, handled, demoVars, probe, linkVars>>

\* A field of a demo state as the record holds it.
FromJson(v) ==
    IF v.t = "num" /\ "n" \in DOMAIN v THEN Num(v.n)
    ELSE IF v.t = "str" THEN v.s
    ELSE v

DemoRecord(state) == [key \in DOMAIN state |-> FromJson(state[key])]

\* A displayed record in which live data hides the demo data.
displayData_LiveOnTop(demo, live, overlay) ==
    IF demo THEN live @@ overlay @@ INITIAL_DATA ELSE live

\* displayData: { ...INITIAL_DATA, ...data, ...demoData } while the demo
\* runs, data otherwise.
displayData(demo, live, overlay) ==
    IF demo THEN overlay @@ live @@ INITIAL_DATA ELSE live

DisplayData == displayData(isDemo, data, demoData)

TICK == 100

\* The interval callback's state for elapsed e (in ticks) at time t: the
\* interpolated keyframes, with the arrival fields derived from the route's
\* minutes when it has any.
DemoTickState(e, t) ==
    LET state == getDemoState(e)
        route == state.activeRoute
    IN  IF route.t = "obj" /\ route.o.minutes_to_arrival.digits # 0
        THEN LET mins == route.o.minutes_to_arrival
             IN  [timeToArrival |-> mins,
                  estArrivalTime |->
                      ToISOString(t + (mins.digits * MS_PER_MINUTE) \div mins.scale)]
                 @@ DemoRecord(state)
        ELSE DemoRecord(state)

\* startDemo, and the demo clock effect it triggers: the interval is armed
\* and the first keyframe shown.
StartDemo ==
    /\ mounted
    /\ ~isDemo
    /\ now < MaxStartDelay * TICK
    /\ isDemo' = TRUE
    /\ showSettings' = FALSE
    /\ demoInterval' = TRUE
    /\ demoData' = DemoRecord(getDemoState(0))
    /\ UNCHANGED <<now, relayVars, mounted, config, savedConfig, fetchState, data,
                   isMqttConnected, connectionStatus, debugLogs, logKept,
                   demoElapsed, handled, hudVars, probe, linkVars>>

\* stopDemo, and the effect that follows: the cleanup clears the interval,
\* the effect body resets the elapsed time and the demo data.
StopDemo ==
    /\ isDemo
    /\ isDemo' = FALSE
    /\ demoInterval' = FALSE
    /\ demoElapsed' = 0
    /\ demoData' = <<>>
    /\ UNCHANGED <<now, relayVars, mounted, config, savedConfig, fetchState, data,
                   isMqttConnected, connectionStatus, debugLogs, logKept,
                   showSettings, handled, hudVars, probe, linkVars>>

\* The interval callback of the demo clock, with the effect that follows
\* setIsDemo(false) at the end of the demo.
DemoTick ==
    /\ demoInterval
    /\ now' = now + TICK
    /\ LET elapsed == demoElapsed + 1
       IN  IF elapsed >= DEMO_DURATION * TICKS_PER_SECOND
           THEN /\ isDemo' = FALSE
                /\ demoInterval' = FALSE
                /\ demoElapsed' = 0
                /\ demoData' = <<>>
           ELSE /\ demoElapsed' = elapsed
                /\ demoData' = DemoTickState(elapsed, now')
                /\ UNCHANGED <<isDemo, demoInterval>>
    /\ UNCHANGED <<relayVars, mounted, config, savedConfig, fetchState, data,
                   isMqttConnected, connectionStatus, debugLogs, logKept,
                   showSettings, handled, hudVars, probe, linkVars>>

\* The searching indicator of the header is rendered.
SearchingShown == ~isMqttConnected /\ ~showSettings /\ ~isDemo

\* The colour class of the status dot.
DotColour ==
    IF connectionStatus = "connected" THEN "green"
    ELSE IF ~isMqttConnected \/ connectionStatus = "connecting" THEN "yellow"
    ELSE "red"

\* fetchConfig: the request failed.
FetchConfigFailed ==
    /\ fetchState = "pending"
    /\ fetchState' = "done"
    /\ SetPage(addDebugLog(Page,
           "System: Could not fetch server config, using local defaults."))
    /\ UNCHANGED <<now, relayVars, mounted, config, savedConfig, logKept, handled, demoVars, hudVars, probe, showSettings>>

\* The settings button.
OpenSettings ==
    /\ mounted
    /\ ~showSettings
    /\ showSettings' = TRUE
    /\ UNCHANGED <<now, relayVars, mounted, config, savedConfig, fetchState, data,
                   isMqttConnected, connectionStatus, debugLogs, logKept, handled, demoVars, hudVars, probe, linkVars>>

\* handleRelink: the same config under a new reference re-runs the service effect.
Relink ==
    /\ showSettings
    /\ Len(services) < MaxServices
    /\ MakesSocket(Len(services)) => Len(socks) < SocketCap
    /\ showSettings' = FALSE
    /\ SetPage(RestartService([Page EXCEPT !.isMqttConnected = FALSE, !.debugLogs = <<>>],
                              config, now))
    /\ UNCHANGED <<now, relayVars, mounted, config, savedConfig, fetchState, logKept, handled, demoVars, hudVars, probe>>

----------------------------------------------------------------------------
(* Specifications *)

\* The broker link: up with the subscription made, or not yet made.
BrokerUp == mqttConnected = TRUE /\ subscription = TopicPattern
BrokerDown == mqttConnected = FALSE /\ subscription = ""

\* No pure-function call is under way.
NoProbe == [fn |-> "", arg |-> <<>>, done |-> TRUE, out |-> <<>>]

RelayIdle ==
    /\ topicCache = <<>>
    /\ clients = [c \in SocketIds |-> "absent"]
    /\ sent = [c \in SocketIds |-> <<>>]
    /\ nextRebroadcast = REBROADCAST_MS
    /\ received = <<>>
    /\ joinedAt = [c \in SocketIds |-> -1]
    /\ joinedDown = [c \in SocketIds |-> FALSE]

\* The page before its mount effects, with the saved configuration cfg; keep
\* says whether the run keeps the debug log.
PageState(cfg, keep) ==
    /\ mounted = FALSE
    /\ config = cfg
    /\ savedConfig = cfg
    /\ fetchState = "idle"
    /\ data = INITIAL_DATA
    /\ isMqttConnected = FALSE
    /\ connectionStatus = "disconnected"
    /\ debugLogs = <<>>
    /\ logKept = keep
    /\ showSettings = FALSE
    /\ isDemo = FALSE
    /\ demoElapsed = 0
    /\ demoData = <<>>
    /\ demoInterval = FALSE
    /\ handled = <<>>
    /\ services = <<>>
    /\ socks = <<>>
    /\ timers = <<>>

\* useState hudMode: the persisted mode, or MIRROR when there is none.
HudLoaded(saved) ==
    /\ savedHudMode = saved
    /\ hudMode = IF saved = "" THEN "MIRROR" ELSE saved

PageLoaded(cfg) == PageState(cfg, FALSE) /\ probe = NoProbe /\ HudLoaded("")

\* The relay alone: no page is modelled beyond the frames sent to its socket.
RelayInit ==
    /\ now = 0
    /\ BrokerUp
    /\ RelayIdle
    /\ PageLoaded(ServerConfig)

RelayNext ==
    \/ \E m \in RelayInputs : Message(m.topic, m.data)
    \/ \E c \in SocketIds : Connection(c)
    \/ Rebroadcast
    \/ \E c \in SocketIds : ClientClosing(c)
    \/ \E c \in SocketIds : ClientClosed(c)

Spec == RelayInit /\ [][RelayNext]_vars

\* The page alone: the App, its Link Managers and the browser's sockets.
PageInit ==
    /\ now = 0
    /\ BrokerUp
    /\ RelayIdle
    /\ \E cfg \in SavedConfigs : PageLoaded(cfg)

PageNext ==
    \/ Mount
    \/ FetchConfigOk
    \/ FetchConfigFailed
    \/ OpenSettings
    \/ Relink
    \/ \E s \in 1..Len(socks) : SocketOpen(s)
    \/ \E s \in 1..Len(socks), f \in PageFrames \cup {STATUS_FRAME} : SocketMessage(s, f)
    \/ \E s \in 1..Len(socks) : SocketClose(s)
    \/ \E s \in 1..Len(socks) : SocketError(s)
    \/ \E i \in 1..Len(timers) : TimerFire(i)

SpecPage == PageInit /\ [][PageNext]_vars

\* The relay with its broker link: started, not yet connected to the broker.
OutageInit ==
    /\ now = 0
    /\ BrokerDown
    /\ RelayIdle
    /\ PageLoaded(ServerConfig)

OutageNext ==
    \/ RelayNext
    \/ MqttConnect
    \/ MqttClose
    \/ MqttError

SpecOutage == OutageInit /\ [][OutageNext]_vars

\* The relay serving its clients from the cache while the broker link comes
\* and goes, within one period of the interval timer.
ServeNext ==
    \/ \E m \in RelayInputs : Message(m.topic, m.data)
    \/ \E c \in SocketIds : Connection(c)
    \/ \E c \in SocketIds : ClientClosing(c)
    \/ \E c \in SocketIds : ClientClosed(c)
    \/ MqttConnect
    \/ MqttClose
    \/ MqttError

SpecServe == OutageInit /\ [][ServeNext]_vars

\* One Link Manager through its reconnects, with the debug log kept.
LogInit ==
    /\ now = 0
    /\ BrokerUp
    /\ RelayIdle
    /\ PageState(ServerConfig, TRUE)
    /\ probe = NoProbe
    /\ HudLoaded("")

LogNext ==
    \/ Mount
    \/ FetchConfigFailed
    \/ \E s \in 1..Len(socks) : SocketOpen(s)
    \/ \E s \in 1..Len(socks) : SocketMessage(s, STATUS_FRAME)
    \/ \E s \in 1..Len(socks) : SocketClose(s)
    \/ \E s \in 1..Len(socks) : SocketError(s)
    \/ \E i \in 1..Len(timers) : TimerFire(i)

SpecLog == LogInit /\ [][LogNext]_vars

\* One Link Manager whose owner calls connect() and disconnect() at will
\* while the browser fires the events of its sockets and timers.
LinkInit ==
    /\ now = 0
    /\ BrokerUp
    /\ RelayIdle
    /\ PageState(ServerConfig, FALSE)
    /\ probe = NoProbe
    /\ HudLoaded("")

LinkNext ==
    \/ LogNext
    \/ ConnectCall(1)
    \/ DisconnectCall(1)

SpecLink == LinkInit /\ [][LinkNext]_vars

\* A page on a fresh browser whose flip control is pressed while its Link
\* Manager goes through its reconnects.
HudInit ==
    /\ now = 0
    /\ BrokerUp
    /\ RelayIdle
    /\ PageLoaded(ServerConfig)

HudNext ==
    \/ LogNext
    \/ CycleHudMode

SpecHud == HudInit /\ [][HudNext]_vars

\* The pure functions, each called once on an input of its bounded domain.
PureInit ==
    /\ now = 0
    /\ BrokerUp
    /\ RelayIdle
    /\ PageState(ServerConfig, FALSE)
    /\ HudLoaded("")
    /\ \/ \E u \in ProxyUrls, l \in Locations :
              probe = Call("ResolveUrl", [proxyUrl |-> u, location |-> l])
       \/ \E e \in ElapsedTicks : probe = Call("getDemoState", [elapsed |-> e])

PureNext ==
    \/ ResolveUrlCall
    \/ GetDemoStateCall

SpecPure == PureInit /\ [][PureNext]_vars

\* The fan-out: the relay with several client sockets and a short run of
\* broker messages.
FanoutInputs ==
    { [topic |-> RelayTopic("destination"), data |-> "A"],
      [topic |-> RelayTopic("speed"), data |-> "88"] }

FanoutInit ==
    /\ now = 0
    /\ BrokerUp
    /\ topicCache = <<>>
    /\ clients = [c \in FanoutIds |-> "absent"]
    /\ sent = [c \in FanoutIds |-> <<>>]
    /\ nextRebroadcast = REBROADCAST_MS
    /\ received = <<>>
    /\ joinedAt = [c \in FanoutIds |-> -1]
    /\ joinedDown = [c \in FanoutIds |-> FALSE]
    /\ PageLoaded(ServerConfig)

FanoutNext ==
    \/ \E m \in FanoutInputs : Len(received) < MaxMsgs - 1 /\ Message(m.topic, m.data)
    \/ \E c \in FanoutIds : Connection(c)
    \/ Rebroadcast
    \/ \E c \in FanoutIds : ClientClosing(c)
    \/ \E c \in FanoutIds : ClientClosed(c)

SpecFanout == FanoutInit /\ [][FanoutNext]_vars

\* The sockets of the fan-out that connect while the interval timer is watched.
LiveIds == {1, 2}

LiveNext ==
    \/ \E m \in FanoutInputs : Len(received) < MaxMsgs - 1 /\ Message(m.topic, m.data)
    \/ \E c \in LiveIds : Connection(c)
    \/ Rebroadcast
    \/ \E c \in LiveIds : ClientClosing(c)
    \/ \E c \in LiveIds : ClientClosed(c)

\* The fan-out with the interval timer of the rebroadcast running: setInterval
\* keeps calling its callback for as long as the process lives.
SpecFanoutLive == FanoutInit /\ [][LiveNext]_vars /\ WF_vars(Rebroadcast)

\* The State Reducer alone: a page whose one Link Manager holds an open
\* socket, fed frames while its clock runs.
ReducerInit ==
    /\ now = 0
    /\ BrokerUp
    /\ RelayIdle
    /\ mounted = TRUE
    /\ config = ServerConfig
    /\ savedConfig = ServerConfig
    /\ fetchState = "done"
    /\ data = INITIAL_DATA
    /\ isMqttConnected = FALSE
    /\ connectionStatus = "connected"
    /\ debugLogs = <<>>
    /\ logKept = FALSE
    /\ showSettings = FALSE
    /\ isDemo = FALSE
    /\ demoElapsed = 0
    /\ demoData = <<>>
    /\ demoInterval = FALSE
    /\ probe = NoProbe
    /\ HudLoaded("")
    /\ handled = <<>>
    /\ services = <<[ws |-> 1, config |-> ServerConfig, reported |-> "connected"]>>
    /\ socks = <<[owner |-> 1, readyState |-> "OPEN", greeted |-> FALSE]>>
    /\ timers = <<>>

ReducerNext ==
    \/ \E f \in ReducerFrames \cup {STATUS_FRAME} : ReducerMessage(1, f)
    \/ ReducerTick

SpecReducer == ReducerInit /\ [][ReducerNext]_vars

\* The reducer fed the state and locked topics, with payloads in and out of
\* the literals the code compares against.
FlagFrames ==
    { Telemetry("state", "charging"), Telemetry("state", "online"),
      Telemetry("state", "Charging"), Telemetry("locked", "true"),
      Telemetry("locked", "false"), Telemetry("locked", "True"),
      Telemetry("locked", "1") }

FlagNext == \E f \in FlagFrames \cup {STATUS_FRAME} : ReducerMessage(1, f)

SpecFlags == ReducerInit /\ [][FlagNext]_vars

\* The reducer fed the edge cases of the navigation topics: minutes that are
\* zero, negative or no number, a route without minutes, a route that is no
\* JSON; and the messages that give the arrival fields a value before them.
NavEdgeFrames ==
    { Telemetry("active_route_minutes_to_arrival", "15"),
      Telemetry("active_route_minutes_to_arrival", "0"),
      Telemetry("active_route_minutes_to_arrival", "-5"),
      Telemetry("active_route_minutes_to_arrival", "soon"),
      Telemetry("active_route", ROUTE_OK),
      Telemetry("active_route", ROUTE_NO_MINS),
      Telemetry("active_route", ROUTE_ABSENT_MINS),
      Telemetry("active_route", ROUTE_MALFORMED),
      Telemetry("active_route", "Amsterdam") }

NavEdgeNext ==
    \/ \E f \in NavEdgeFrames \cup {STATUS_FRAME} : ReducerMessage(1, f)
    \/ ReducerTick

SpecNavEdge == ReducerInit /\ [][NavEdgeNext]_vars

\* The timestamps the relay's envelopes may carry when they reach the page.
Stamps == {0, 7, 2 * MS_PER_MINUTE}

\* The reducer fed envelopes that differ in their timestamp only.
StampFrames ==
    { Envelope(RelayTopic(f.suffix), f.data, ts) :
        f \in { [suffix |-> "active_route_minutes_to_arrival", data |-> "15"],
                [suffix |-> "active_route", data |-> ROUTE_OK],
                [suffix |-> "est_arrival_time", data |-> "2026-01-01T10:00:00Z"] },
        ts \in Stamps }

StampNext ==
    \/ \E f \in StampFrames \cup {STATUS_FRAME} : ReducerMessage(1, f)
    \/ ReducerTick

SpecStamp == ReducerInit /\ [][StampNext]_vars

\* The live frame that arrives while the demo is watched: a field the demo
\* leaves alone.
DemoFrames == { Telemetry("odometer", "12345") }

DemoNext ==
    \/ StartDemo
    \/ StopDemo
    \/ DemoTick
    \/ \E f \in DemoFrames \cup {STATUS_FRAME} : SocketMessage(1, f)

\* The demo on a page with an open socket.  setInterval keeps calling the
\* tick until clearInterval: the tick is weakly fair.
SpecDemo == ReducerInit /\ [][DemoNext]_vars /\ WF_vars(DemoTick)

----------------------------------------------------------------------------
(* Helpers of the relay claims *)

\* The topics among the first n broker messages.
TopicsReceived(n) == { received[k].topic : k \in 1..n }

\* The payload of the last of the first n broker messages with that topic.
LatestPayload(n, topic) ==
    received[CHOOSE k \in 1..n :
                /\ received[k].topic = topic
                /\ \A j \in (k + 1)..n : received[j].topic # topic].data

\* The frames of a client that was connected before the first broker message
\* and was sent every message live.
LiveFrames ==
    <<STATUS_FRAME>> \o
    [k \in 1..Len(received) |-> Envelope(received[k].topic, received[k].data, 0)]

\* The record a client holds once it has handled every frame sent to it, and
\* the record of the client that saw everything live; the wall clock is held
\* at 0 for both.
ClientRecord(c) == Reduce(ServerConfig, INITIAL_DATA, sent[c], 0)
LiveRecord == Reduce(ServerConfig, INITIAL_DATA, LiveFrames, 0)

IsTelemetry(frame, topic, payload) ==
    /\ ~IsStatus(frame)
    /\ frame.topic = topic
    /\ frame.data = payload

\* frames holds exactly one telemetry frame per entry of cache, with the
\* entry's payload, and nothing else.
OnePerCacheEntry(frames, cache) ==
    /\ Len(frames) = Len(cache)
    /\ \A e \in 1..Len(cache) :
          Cardinality({ i \in 1..Len(frames) :
                          IsTelemetry(frames[i], cache[e].topic, cache[e].data) }) = 1

----------------------------------------------------------------------------
(* Claims about the relay *)

\* C1: a client that connects late and applies the replay (and whatever is
\* relayed afterwards) holds the same record as a client that was connected
\* from the start and applied every message live.
C1_LateJoinerSameRecord ==
    \A c \in SocketIds :
        clients[c] = "open" /\ joinedAt[c] >= 1 => ClientRecord(c) = LiveRecord

\* C2: on connection the relay sends one status frame first, then exactly one
\* telemetry frame per topic cached at that moment with the payload cached
\* then; whatever is sent for later broker messages comes after these.
C2_ReplayOnConnect ==
    \A c \in SocketIds :
        joinedAt[c] >= 0 =>
            LET j == joinedAt[c]
                N == Cardinality(TopicsReceived(j))
            IN  /\ Len(sent[c]) >= N + 1
                /\ sent[c][1] = STATUS_FRAME
                /\ \A i \in 2..Len(sent[c]) : ~IsStatus(sent[c][i])
                /\ \A t \in TopicsReceived(j) :
                      Cardinality({ i \in 2..(N + 1) :
                          IsTelemetry(sent[c][i], t, LatestPayload(j, t)) }) = 1

C2_Witness ==
    \E c \in SocketIds :
        /\ clients[c] = "open"
        /\ joinedAt[c] = 2
        /\ Len(topicCache) = 2
        /\ Len(received) = 3
        /\ Len(sent[c]) = 4

\* C3: the Topic Cache holds exactly one entry per distinct topic received,
\* valued with the payload of the latest message of that topic.
C3_CacheLatestPerTopic ==
    /\ \A i, j \in 1..Len(topicCache) :
          topicCache[i].topic = topicCache[j].topic => i = j
    /\ { topicCache[i].topic : i \in 1..Len(topicCache) } = TopicsReceived(Len(received))
    /\ \A i \in 1..Len(topicCache) :
          topicCache[i].data = LatestPayload(Len(received), topicCache[i].topic)

C3_Witness ==
    /\ Len(received) = 3
    /\ received[1].topic = received[3].topic
    /\ received[1].data # received[3].data
    /\ received[2].topic # received[1].topic
    /\ Len(topicCache) = 2

\* C4: handling a broker message sends exactly one frame with its topic and
\* payload to each socket that is open, and nothing to any other socket.
C4_LiveRelayToOpenOnly ==
    [][ Len(received') = Len(received) + 1 =>
          LET m == received'[Len(received')]
          IN  \A c \in SocketIds :
                IF clients[c] = "open"
                THEN /\ Len(sent'[c]) = Len(sent[c]) + 1
                     /\ SubSeq(sent'[c], 1, Len(sent[c])) = sent[c]
                     /\ IsTelemetry(sent'[c][Len(sent'[c])], m.topic, m.data)
                ELSE sent'[c] = sent[c] ]_vars

C4_Witness ==
    \E c \in SocketIds :
        /\ clients[c] = "closing"
        /\ joinedAt[c] = 0
        /\ Len(received) = 2
        /\ Len(sent[c]) = 2
        /\ IsTelemetry(sent[c][2], received[1].topic, received[1].data)

\* C5: a full-cache rebroadcast applied by a client whose record reflects
\* every broker message received so far leaves that record unchanged.
C5_RebroadcastIdempotent ==
    [][ nextRebroadcast' # nextRebroadcast =>
          \A c \in SocketIds :
              clients[c] = "open" /\ ClientRecord(c) = LiveRecord =>
                  ClientRecord(c)' = ClientRecord(c) ]_vars

\* C6: a rebroadcast tick sends each open socket exactly one telemetry frame
\* per cache entry, with the entry's payload, and sends other sockets nothing.
C6_RebroadcastToOpenOnly ==
    [][ nextRebroadcast' # nextRebroadcast =>
          \A c \in SocketIds :
              IF clients[c] = "open"
              THEN /\ SubSeq(sent'[c], 1, Len(sent[c])) = sent[c]
                   /\ OnePerCacheEntry(
                          SubSeq(sent'[c], Len(sent[c]) + 1, Len(sent'[c])), topicCache)
              ELSE sent'[c] = sent[c] ]_vars

C6_Witness ==
    \E c \in SocketIds :
        /\ clients[c] = "open"
        /\ joinedAt[c] = 2
        /\ Len(received) = 2
        /\ Len(topicCache) = 2
        /\ nextRebroadcast > REBROADCAST_MS
        /\ Len(sent[c]) = 5

----------------------------------------------------------------------------
(* Claims about the Link Manager and the App that owns it *)

\* The services disconnect() has been called on: the MqttService effect's
\* cleanup calls it on every service but the newest.
Disconnected == 1..(Len(services) - 1)

IsLive(s) == socks[s].readyState \in {"CONNECTING", "OPEN"}

HasTimer(m) == \E i \in 1..Len(timers) : timers[i].svc = m

\* C7: after disconnect() a Link Manager makes no further connection attempt:
\* it holds no socket, its last report stays 'disconnected', and it has no
\* reconnect timer pending.
C7_NoAttemptAfterDisconnect ==
    \A m \in Disconnected :
        /\ services[m].ws = 0
        /\ services[m].reported = "disconnected"
        /\ ~HasTimer(m)

\* C8: every socket close makes the Link Manager report 'disconnected' and
\* schedule connect() 5 s later; the timer's connect() reports 'connecting'
\* and opens a socket, no earlier than due; and a Link Manager's reports go
\* from 'connected' only to 'disconnected', from 'disconnected' only to
\* 'connecting'.
C8_CloseThenReconnect ==
    [][ /\ \A s \in 1..Len(socks) :
              socks[s].readyState # "CLOSED" /\ socks'[s].readyState = "CLOSED" =>
                  /\ services'[socks[s].owner].reported = "disconnected"
                  /\ timers' = Append(timers, [svc |-> socks[s].owner,
                                               due |-> now + RECONNECT_MS])
        /\ \A i \in 1..Len(timers) :
              Len(timers') < Len(timers) /\ timers' = SubSeq(timers, 1, i - 1)
                                               \o SubSeq(timers, i + 1, Len(timers)) =>
                  /\ now' >= timers[i].due
                  /\ services'[timers[i].svc].reported = "connecting"
                  /\ Len(socks') = Len(socks) + 1
                  /\ socks'[Len(socks')].owner = timers[i].svc
                  /\ socks'[Len(socks')].readyState = "CONNECTING"
        /\ \A m \in 1..Len(services) :
              LET old == services[m].reported
                  new == services'[m].reported
              IN  /\ old = "connected" /\ new # old => new = "disconnected"
                  /\ old = "disconnected" /\ new # old => new = "connecting" ]_vars

C8_Witness ==
    \E m \in 1..Len(services), s \in 1..Len(socks) :
        /\ socks[s].owner = m
        /\ socks[s].readyState = "CLOSED"
        /\ socks[s].greeted
        /\ services[m].reported = "connecting"
        /\ services[m].ws > s
        /\ socks[services[m].ws].readyState = "CONNECTING"
        /\ now >= RECONNECT_MS

\* C9: the Link Manager in use reconnects forever: whenever its connection
\* attempt failed or its connection dropped, so that it has no live socket,
\* the next attempt is scheduled.
C9_AlwaysRetrying ==
    mounted =>
        LET m == Len(services)
        IN  \/ services[m].ws # 0 /\ IsLive(services[m].ws)
            \/ HasTimer(m)

\* C10: the page holds at most one live (connecting or open) WebSocket.
C10_OneLiveSocket ==
    Cardinality({ s \in 1..Len(socks) : IsLive(s) }) <= 1

----------------------------------------------------------------------------
(* Claims about the State Reducer *)

\* The frame the reducer handled last, and the time it was handled at.
LastFrame == handled[Len(handled)].frame
LastAt == handled[Len(handled)].at

\* The step in which ws.onmessage handles one more frame.
Handling == Len(handled') = Len(handled) + 1

HasSuffix(frame, suffix) ==
    ~IsStatus(frame) /\ frame.topic = "teslamate/cars/1/" \o suffix

\* The fixed table of known suffixes.
KnownSuffixes ==
    { "speed", "battery_level", "power", "shift_state", "ideal_battery_range_km",
      "outside_temp", "inside_temp", "odometer", "heading", "elevation",
      "geofence", "state", "locked", "charger_power", "time_to_full_charge",
      "charge_limit_soc", "destination", "est_arrival_time", "time_to_arrival",
      "active_route_destination", "active_route_minutes_to_arrival",
      "active_route" }

IsKnown(frame) == \E suffix \in KnownSuffixes : HasSuffix(frame, suffix)

\* The decimal text of a flat numeric payload of the frame universe.
Decimal(text) ==
    CASE text = "15" -> 15
      [] text = "14" -> 14

\* What a rich active_route payload says: valid JSON or not, its error, its
\* destination and its minutes to arrival.
RouteValid(frame) == frame.data \in {ROUTE_OK, ROUTE_ERR, ROUTE_NO_MINS}
RouteError(frame) == frame.data = ROUTE_ERR
RouteDestination(frame) ==
    CASE frame.data = ROUTE_OK -> "Amsterdam Centraal"
      [] frame.data = ROUTE_NO_MINS -> "Home"
RouteMinutes(frame) ==
    CASE frame.data = ROUTE_OK -> 28
      [] frame.data = ROUTE_NO_MINS -> 0

IsRichRoute(frame) == HasSuffix(frame, "active_route") /\ RouteValid(frame)
IsRouteOk(frame) == IsRichRoute(frame) /\ ~RouteError(frame)
IsRouteError(frame) == IsRichRoute(frame) /\ RouteError(frame)
IsMalformedRoute(frame) == HasSuffix(frame, "active_route") /\ ~RouteValid(frame)

NavFields == {"destination", "timeToArrival", "estArrivalTime"}

\* Whether a message of one of the three navigation families maps to the
\* field: the flat topics to their one field (the derived arrival time only
\* for a positive number of minutes), the rich payload to all three, a
\* malformed rich payload to the destination it empties.
MapsTo(frame, field) ==
    CASE field = "destination" ->
            \/ HasSuffix(frame, "destination")
            \/ HasSuffix(frame, "active_route_destination")
            \/ HasSuffix(frame, "active_route")
      [] field = "timeToArrival" ->
            \/ HasSuffix(frame, "time_to_arrival")
            \/ HasSuffix(frame, "active_route_minutes_to_arrival")
            \/ IsRichRoute(frame)
      [] field = "estArrivalTime" ->
            \/ HasSuffix(frame, "est_arrival_time")
            \/ HasSuffix(frame, "active_route_minutes_to_arrival")
                 /\ Decimal(frame.data) > 0
            \/ IsRichRoute(frame)

\* The value a message handled at time at supplies for a field it maps to.
Supplied(frame, at, field) ==
    CASE field = "destination" ->
            IF ~HasSuffix(frame, "active_route") THEN frame.data
            ELSE IF IsRouteOk(frame) THEN RouteDestination(frame)
            ELSE ""
      [] field = "timeToArrival" ->
            IF ~HasSuffix(frame, "active_route") THEN Num(Decimal(frame.data))
            ELSE IF IsRouteOk(frame) THEN Num(RouteMinutes(frame))
            ELSE Num(0)
      [] field = "estArrivalTime" ->
            IF HasSuffix(frame, "est_arrival_time") THEN frame.data
            ELSE IF HasSuffix(frame, "active_route_minutes_to_arrival")
            THEN ToISOString(at + Decimal(frame.data) * 60000)
            ELSE IF IsRouteOk(frame)
            THEN ToISOString(at + RouteMinutes(frame) * 60000)
            ELSE ""

\* The handled messages that map to the field.
Writers(field) == { k \in 1..Len(handled) : MapsTo(handled[k].frame, field) }

LastWriter(field) == CHOOSE k \in Writers(field) : \A j \in Writers(field) : j <= k

\* C11: each of destination, timeToArrival and estArrivalTime holds the value
\* supplied by the most recently received message that maps to the field,
\* whichever of the three navigation families it came from.
C11_LastWritePerField ==
    \A field \in NavFields :
        IF Writers(field) = {} THEN data[field] = INITIAL_DATA[field]
        ELSE data[field] = Supplied(handled[LastWriter(field)].frame,
                                    handled[LastWriter(field)].at, field)

C13_RouteDerivesArrival ==
    Len(handled) > 0 /\ IsRouteOk(LastFrame) =>
        /\ data.timeToArrival = Num(RouteMinutes(LastFrame))
        /\ data.estArrivalTime = ToISOString(LastAt + RouteMinutes(LastFrame) * 60000)

\* C14: once active_route_minutes_to_arrival = m with m > 0 is applied at
\* time T, estArrivalTime is T + m minutes, computed from the time of that
\* message and not of an earlier one.
C14_MinutesDeriveArrival ==
    Len(handled) > 0 /\ HasSuffix(LastFrame, "active_route_minutes_to_arrival")
                     /\ Decimal(LastFrame.data) > 0 =>
        /\ data.timeToArrival = Num(Decimal(LastFrame.data))
        /\ data.estArrivalTime = ToISOString(LastAt + Decimal(LastFrame.data) * 60000)

C14_Witness ==
    /\ Len(handled) = 3
    /\ handled[2] = [frame |-> Telemetry("active_route_minutes_to_arrival", "15"), at |-> 0]
    /\ handled[3] = [frame |-> Telemetry("active_route_minutes_to_arrival", "14"),
                     at |-> 60000]
    /\ data.estArrivalTime = ToISOString(60000 + 14 * 60000)

\* The record fields mapped from a frame's topic.
FieldsOf(frame) ==
    CASE HasSuffix(frame, "speed") -> {"speed"}
      [] HasSuffix(frame, "battery_level") -> {"batteryLevel"}
      [] HasSuffix(frame, "shift_state") -> {"gear"}
      [] HasSuffix(frame, "destination") -> {"destination"}
      [] HasSuffix(frame, "est_arrival_time") -> {"estArrivalTime"}
      [] HasSuffix(frame, "time_to_arrival") -> {"timeToArrival"}
      [] HasSuffix(frame, "active_route_destination") -> {"destination"}
      [] HasSuffix(frame, "active_route_minutes_to_arrival") ->
            {"timeToArrival", "estArrivalTime"}
      [] HasSuffix(frame, "active_route") ->
            {"activeRoute", "destination", "timeToArrival", "estArrivalTime"}
      [] OTHER -> {}

Scenario ==
    <<STATUS_FRAME, Telemetry("battery_level", "88"), Telemetry("shift_state", "D"),
      Telemetry("active_route", ROUTE_OK)>>

\* C15: an applied message changes only the fields mapped from its topic,
\* every other field keeps its value, and battery_level, shift_state and a
\* successful active_route leave a record that holds all three results.
C15_OnlyMappedFieldsChange ==
    [][ Handling =>
          /\ DOMAIN data' = DOMAIN data
          /\ \A field \in DOMAIN data \ FieldsOf(handled'[Len(handled')].frame) :
                data'[field] = data[field]
          /\ [k \in 1..Len(handled') |-> handled'[k].frame] = Scenario =>
                /\ data'.batteryLevel = Num(88)
                /\ data'.gear = "D"
                /\ data'.destination = "Amsterdam Centraal"
                /\ data'.timeToArrival = Num(28)
                /\ data'.activeRoute # NullRoute ]_vars

C15_Witness ==
    /\ [k \in 1..Len(handled) |-> handled[k].frame] = Scenario
    /\ data.batteryLevel = Num(88)
    /\ data.gear = "D"
    /\ data.destination = "Amsterdam Centraal"

\* C17: an active_route message that is not valid JSON leaves activeRoute
\* null and reaches the data callback like any other message, and the
\* message handled after it takes effect as usual.
C17_MalformedRouteCleared ==
    [][ Handling =>
          LET frame == handled'[Len(handled')].frame
          IN  /\ IsMalformedRoute(frame) =>
                    /\ data'.activeRoute = NullRoute
                    /\ isMqttConnected'
              /\ Len(handled) > 0 /\ IsMalformedRoute(LastFrame) =>
                    /\ HasSuffix(frame, "battery_level") => data'.batteryLevel = Num(88)
                    /\ HasSuffix(frame, "shift_state") => data'.gear = "D"
                    /\ IsRouteOk(frame) => data'.activeRoute # NullRoute ]_vars

C17_Witness ==
    /\ Len(handled) = 4
    /\ IsRouteOk(handled[2].frame)
    /\ IsMalformedRoute(handled[3].frame)
    /\ HasSuffix(handled[4].frame, "battery_level")
    /\ data.activeRoute = NullRoute
    /\ data.batteryLevel = Num(88)

\* C18: a status frame, and a frame whose topic is not the configured
\* prefix and car with a known suffix, produce no field update: the data
\* callback is not invoked and the record is unchanged.
C18_UnknownTopicIgnored ==
    [][ Handling /\ ~IsKnown(handled'[Len(handled')].frame) =>
          /\ data' = data
          /\ isMqttConnected' = isMqttConnected ]_vars

C18_Witness ==
    /\ Len(handled) = 3
    /\ IsStatus(handled[1].frame)
    /\ handled[2].frame.topic = "teslamate/cars/1/tpms_pressure_fl"
    /\ handled[3].frame.topic = "teslamate/cars/2/speed"
    /\ data = INITIAL_DATA
    /\ ~isMqttConnected

\* C19: a speed message with a non-numeric payload sets speed to 0.
C19_NonNumericSpeedIsZero ==
    Len(handled) > 0 /\ HasSuffix(LastFrame, "speed") /\ LastFrame.data = "NaN-ish" =>
        data.speed = Num(0)

C19_Witness ==
    /\ Len(handled) = 2
    /\ handled[2].frame = Telemetry("speed", "NaN-ish")
    /\ isMqttConnected
    /\ data.speed = Num(0)

----------------------------------------------------------------------------
(* Claims about the relay's broker link *)

\* C20: while the broker link is down the relay sends nothing to a client
\* that is already connected.
C20_SilentDuringOutage ==
    [][ ~mqttConnected =>
          \A c \in SocketIds : clients[c] = "open" => sent'[c] = sent[c] ]_vars

\* Socket c connects in this step.
Joins(c) == clients[c] = "absent" /\ clients'[c] = "open"

\* C28: while the broker link is down (unreachable, or after an error) the
\* relay keeps running: a client that connects gets the status frame and one
\* envelope per cached topic with the last payload seen; and each broker
\* (re)connect subscribes to {prefix}/cars/{carId}/#.
C28_ServesCacheWithoutBroker ==
    [][ /\ \A c \in SocketIds :
              ~mqttConnected /\ Joins(c) =>
                  \E k \in 1..Len(sent'[c]) :
                      /\ sent'[c][k] = STATUS_FRAME
                      /\ \A i \in 1..Len(sent'[c]) : sent'[c][i] = STATUS_FRAME => i = k
                      /\ OnePerCacheEntry(SelectSeq(sent'[c], LAMBDA f : f # STATUS_FRAME),
                                          topicCache)
        /\ ~mqttConnected /\ mqttConnected' =>
              subscription' = MQTT_PREFIX \o "/cars/" \o CAR_ID \o "/#" ]_vars

C28_Witness ==
    /\ ~mqttConnected
    /\ clients[1] = "open"
    /\ joinedDown[1]
    /\ Len(topicCache) = 2
    /\ Len(received) = 3
    /\ sent[1] = ConnectionFrames(topicCache, now)

\* The time at which the latest message of topic was received.
ReceivedAt(topic) ==
    received[CHOOSE k \in 1..Len(received) :
                /\ received[k].topic = topic
                /\ \A j \in (k + 1)..Len(received) : received[j].topic # topic].at

\* The interval timer's callback runs in this step.
TimerRuns == nextRebroadcast' # nextRebroadcast

\* C29: an envelope built from the Topic Cache (the replay to a new client,
\* the rebroadcast) carries the time at which its payload was received.
C29_CacheEnvelopesCarryReceiptTime ==
    [][ \A c \in SocketIds :
            Joins(c) \/ TimerRuns =>
                \A i \in (Len(sent[c]) + 1)..Len(sent'[c]) :
                    ~IsStatus(sent'[c][i]) =>
                        sent'[c][i].timestamp = ReceivedAt(sent'[c][i].topic) ]_vars

----------------------------------------------------------------------------
(* Claims about the fan-out *)

\* Client socket c leaves the open state (close or error), or is dropped
\* from wss.clients, in this step.
Failing(c) ==
    \/ clients[c] = "open" /\ clients'[c] = "closing"
    \/ clients[c] = "closing" /\ clients'[c] = "absent"

ResentAt(c, topic, at) ==
    \E i \in 1..Len(sent[c]), e \in 1..Len(topicCache) :
        /\ topicCache[e].topic = topic
        /\ sent[c][i] = Envelope(topic, topicCache[e].data, at)

\* C27: if a client socket stays open then, with the rebroadcast timer
\* firing, it is eventually sent an envelope with the latest cached payload
\* of every topic in the Topic Cache.
C27_CacheEventuallyResent ==
    \A c \in LiveIds : \A m \in FanoutInputs : \A k \in 1..MaxRebroadcasts :
        (/\ clients[c] = "open"
         /\ CacheHas(topicCache, m.topic)
         /\ nextRebroadcast = k * REBROADCAST_MS)
            ~> (clients[c] # "open" \/ ResentAt(c, m.topic, k * REBROADCAST_MS))

C27_Witness ==
    /\ clients[1] = "open"
    /\ clients[2] = "open"
    /\ Len(topicCache) = 2
    /\ nextRebroadcast = 2 * REBROADCAST_MS
    /\ \A c \in {1, 2} : \A e \in 1..2 : ResentAt(c, topicCache[e].topic, REBROADCAST_MS)

----------------------------------------------------------------------------
(* Claims about the Link Manager's reports and the rolling log *)

EndsWith(text, tail) ==
    Len(text) >= Len(tail) /\ SubSeq(text, Len(text) - Len(tail) + 1, Len(text)) = tail

\* The newest entry of the log after the step ends with tail.
NewestEndsWith(tail) ==
    Len(debugLogs') > 0 /\ EndsWith(debugLogs'[Len(debugLogs')], tail)

\* The log after the step is the log before it with k entries appended and
\* only the overflow beyond the fixed count dropped, oldest first.
Rolled(k) ==
    LET n == Len(debugLogs)
        dropped == IF n + k > 20 THEN n + k - 20 ELSE 0
    IN  /\ Len(debugLogs') = n + k - dropped
        /\ \A i \in 1..(n - dropped) : debugLogs'[i] = debugLogs[i + dropped]

----------------------------------------------------------------------------
(* Claims about the header and the configuration read-back *)

\* C24: whenever the status is 'disconnected' or 'connecting' and neither
\* settings nor demo is showing, the searching indicator is shown, also
\* after data has been received.
C24_SearchingWheneverNotConnected ==
    connectionStatus \in {"disconnected", "connecting"} /\ ~showSettings /\ ~isDemo
        => SearchingShown

\* The step in which the configuration endpoint's answer is handled.
ConfigAnswered ==
    fetchState = "pending" /\ fetchState' = "done" /\ Len(services') = Len(services) + 1

\* C25: when the read-back endpoint answers, topicPrefix, carId and proxyUrl
\* it returns replace the local values in the configuration the Link Manager
\* connects with, and the merged configuration is what is persisted.
C25_ServerConfigWins ==
    [][ConfigAnswered =>
          /\ \A f \in {"topicPrefix", "carId", "proxyUrl"} : config'[f] = ServerConfig[f]
          /\ services'[Len(services')].config = config'
          /\ savedConfig' = config']_vars

C25_Witness ==
    /\ fetchState = "done"
    /\ Len(services) = 2
    /\ services[1].config = [proxyUrl |-> "ws://old.example/ws", topicPrefix |-> "old", carId |-> 2]
    /\ services[2].config = ServerConfig
    /\ config = ServerConfig
    /\ savedConfig = ServerConfig

\* C30: the dot is green exactly when the status is 'connected', yellow
\* exactly when 'connecting', red exactly when 'disconnected'.
C30_ColourFollowsStatus ==
    mounted =>
        /\ DotColour = "green" <=> connectionStatus = "connected"
        /\ DotColour = "yellow" <=> connectionStatus = "connecting"
        /\ DotColour = "red" <=> connectionStatus = "disconnected"

----------------------------------------------------------------------------
(* Claims about the pure functions *)

HasScheme(url) == StartsWith(url, "ws://") \/ StartsWith(url, "wss://")

\* The socket scheme of a page: wss: on an https page, ws: otherwise.
PageScheme(location) == IF location.protocol = "https:" THEN "wss:" ELSE "ws:"

\* C23: a configured URL with ws:// or wss:// is used unchanged; one without
\* a scheme gets the page's socket scheme, and the page host too when it
\* starts with '/'; no configured URL gives the page host plus /ws.
C23_AddressResolution ==
    probe.fn = "ResolveUrl" /\ probe.done =>
        LET url == probe.arg.proxyUrl
            location == probe.arg.location
        IN  /\ HasScheme(url) => probe.out = url
            /\ url = "" => probe.out = PageScheme(location) \o "//" \o location.host \o "/ws"
            /\ url # "" /\ ~HasScheme(url) /\ SubSeq(url, 1, 1) = "/" =>
                  probe.out = PageScheme(location) \o "//" \o location.host \o url
            /\ url # "" /\ ~HasScheme(url) /\ SubSeq(url, 1, 1) # "/" =>
                  probe.out = PageScheme(location) \o "//" \o url

C23_Witness ==
    /\ probe.fn = "ResolveUrl"
    /\ probe.done
    /\ probe.arg.proxyUrl = "/hud/ws"
    /\ probe.arg.location = [protocol |-> "https:", host |-> "hud.local:8443"]
    /\ probe.out = "wss://hud.local:8443/hud/ws"

\* Keyframes i and i + 1 bracket the elapsed time e (in ticks).
Brackets(i, e) ==
    /\ DEMO_KEYFRAMES[i].t * 10 <= e
    /\ e <= DEMO_KEYFRAMES[i + 1].t * 10

\* out is what the claim gives for the bracketing keyframes i and i + 1.
Interpolated(out, i, e) ==
    LET a == DEMO_KEYFRAMES[i].data
        b == DEMO_KEYFRAMES[i + 1].data
        from == DEMO_KEYFRAMES[i].t * 10
        span == DEMO_KEYFRAMES[i + 1].t * 10 - from
    IN  /\ DOMAIN out = DOMAIN a \cup DOMAIN b
        /\ \A key \in DOMAIN a \ DOMAIN b : out[key] = a[key]
        /\ \A key \in DOMAIN b \ DOMAIN a : out[key] = b[key]
        /\ \A key \in DOMAIN a \cap DOMAIN b :
              IF a[key].t = "num" /\ b[key].t = "num"
              THEN \* the nearest integer to a + (b - a) * (e - from) / span
                   /\ out[key].t = "num"
                   /\ LET exact == a[key].n * span + (b[key].n - a[key].n) * (e - from)
                          off == 2 * (out[key].n * span - exact)
                      IN  off <= span /\ 0 - off <= span
              ELSE IF 2 * (e - from) < span THEN out[key] = a[key]
              ELSE out[key] = b[key]

\* C26: getDemoState clamps to the first and the last keyframe, and between
\* them interpolates the two bracketing keyframes: numbers linearly and
\* rounded, other values stepped at the midpoint, a field of only one
\* keyframe taken from it.
C26_DemoInterpolation ==
    probe.fn = "getDemoState" /\ probe.done =>
        LET e == probe.arg.elapsed
            last == Len(DEMO_KEYFRAMES)
        IN  IF e <= DEMO_KEYFRAMES[1].t * 10 THEN probe.out = DEMO_KEYFRAMES[1].data
            ELSE IF e >= DEMO_KEYFRAMES[last].t * 10
            THEN probe.out = DEMO_KEYFRAMES[last].data
            ELSE \E i \in 1..(last - 1) :
                    Brackets(i, e) /\ Interpolated(probe.out, i, e)

C26_Witness ==
    /\ probe.fn = "getDemoState"
    /\ probe.done
    /\ probe.arg.elapsed = 65
    /\ probe.out.speed = JNum(26)
    /\ probe.out.gear = JStr("D")
    /\ probe.out.batteryLevel = JNum(88)

----------------------------------------------------------------------------
(* Claims about the demo and the flip control *)

\* The fields of the displayed record: each from the demo data if it has the
\* field, else from the live record, else from the default record.
Layered ==
    /\ DOMAIN DisplayData = DOMAIN INITIAL_DATA \cup DOMAIN data \cup DOMAIN demoData
    /\ \A f \in DOMAIN DisplayData :
          DisplayData[f] = IF f \in DOMAIN demoData THEN demoData[f]
                           ELSE IF f \in DOMAIN data THEN data[f]
                           ELSE INITIAL_DATA[f]

\* The demo clock ticks in this step.
Ticking == demoInterval /\ now' = now + TICK

\* C31: a started demo always ends; the tick at which the elapsed time
\* reaches 30 s clears the interval, switches the demo off and empties the
\* demo data; while the demo runs the displayed record is the default record
\* overlaid by the live one overlaid by the demo data; a tick never modifies
\* the live record; with the demo off the displayed record is the live one.
C31_DemoEndsAndOverlays ==
    /\ isDemo ~> ~isDemo
    /\ [](isDemo => Layered /\ demoInterval)
    /\ [](~isDemo => DisplayData = data /\ ~demoInterval /\ demoData = <<>>)
    /\ [][Ticking =>
            /\ data' = data
            /\ demoElapsed + 1 >= 300 => ~isDemo' /\ ~demoInterval' /\ demoData' = <<>>
            /\ demoElapsed + 1 < 300 => isDemo' /\ demoElapsed' = demoElapsed + 1]_vars

C31_Witness ==
    /\ ~isDemo
    /\ now = 30000
    /\ demoData = <<>>
    /\ data.odometer = Num(12345)
    /\ DisplayData = data

\* C37: each press of the flip control moves the mode along NORMAL ->
\* MIRROR -> FLIPPED -> NORMAL, and the persisted hud_mode equals the mode
\* after the press.
C37_ModeCycle ==
    [][hudMode' # hudMode \/ savedHudMode' # savedHudMode =>
          /\ <<hudMode, hudMode'>> \in { <<"NORMAL", "MIRROR">>, <<"MIRROR", "FLIPPED">>,
                                         <<"FLIPPED", "NORMAL">> }
          /\ savedHudMode' = hudMode']_vars

C37_Witness ==
    /\ hudMode = "MIRROR"
    /\ savedHudMode = "MIRROR"

----------------------------------------------------------------------------
(* Claims about the reducer's literals, edge cases and timestamps *)

\* The frame handled in this step.
NewFrame == handled'[Len(handled')].frame

\* The positions in handled of the locked messages.
LockedSeen == { k \in 1..Len(handled) : HasSuffix(handled[k].frame, "locked") }

LastLocked == handled[CHOOSE k \in LockedSeen : \A j \in LockedSeen : j <= k].frame

\* C32: in every record built from live messages isCharging is true exactly
\* when state is "charging", and after a locked message isLocked is true
\* exactly when the last such payload was the literal "true".
C32_FlagsAreLiteral ==
    /\ data.isCharging = (data.state = "charging")
    /\ LockedSeen # {} => data.isLocked = (LastLocked.data = "true")

C32_Witness ==
    /\ Len(handled) = 4
    /\ handled[2].frame = Telemetry("state", "charging")
    /\ handled[3].frame = Telemetry("locked", "true")
    /\ handled[4].frame = Telemetry("locked", "True")
    /\ data.isCharging
    /\ ~data.isLocked

\* C33: active_route_minutes_to_arrival with a value that is zero, negative
\* or no number updates timeToArrival and leaves estArrivalTime as it was; an
\* active_route without error whose minutes are zero or absent leaves both
\* as they were.
C33_NoArrivalFromNonPositive ==
    [][ Handling =>
          /\ HasSuffix(NewFrame, "active_route_minutes_to_arrival") =>
                /\ NewFrame.data = "0" =>
                      data'.timeToArrival = Num(0)
                      /\ data'.estArrivalTime = data.estArrivalTime
                /\ NewFrame.data = "-5" =>
                      data'.timeToArrival = Num(-5)
                      /\ data'.estArrivalTime = data.estArrivalTime
                /\ NewFrame.data = "soon" =>
                      data'.timeToArrival = NaN
                      /\ data'.estArrivalTime = data.estArrivalTime
          /\ HasSuffix(NewFrame, "active_route")
             /\ NewFrame.data \in {ROUTE_NO_MINS, ROUTE_ABSENT_MINS} =>
                /\ data'.timeToArrival = data.timeToArrival
                /\ data'.estArrivalTime = data.estArrivalTime ]_vars

C33_Witness ==
    /\ Len(handled) = 4
    /\ handled[2] = [frame |-> Telemetry("active_route_minutes_to_arrival", "15"), at |-> 0]
    /\ handled[3] = [frame |-> Telemetry("active_route_minutes_to_arrival", "0"),
                     at |-> 60000]
    /\ handled[4] = [frame |-> Telemetry("active_route", ROUTE_ABSENT_MINS), at |-> 60000]
    /\ data.timeToArrival = Num(0)
    /\ data.estArrivalTime = ToISOString(15 * 60000)

\* C34: after an active_route message whose payload is not valid JSON,
\* activeRoute is null and destination empty, and timeToArrival and
\* estArrivalTime are what they were before the message.
C34_InvalidJsonKeepsArrival ==
    [][ Handling /\ HasSuffix(NewFrame, "active_route")
                 /\ NewFrame.data \in {ROUTE_MALFORMED, "Amsterdam"} =>
          /\ data'.activeRoute = NullRoute
          /\ data'.destination = ""
          /\ data'.timeToArrival = data.timeToArrival
          /\ data'.estArrivalTime = data.estArrivalTime ]_vars

C34_Witness ==
    /\ Len(handled) = 3
    /\ handled[2].frame = Telemetry("active_route", ROUTE_OK)
    /\ handled[3].frame = Telemetry("active_route", ROUTE_MALFORMED)
    /\ data.activeRoute = NullRoute
    /\ data.destination = ""
    /\ data.timeToArrival = Num(28)
    /\ data.estArrivalTime = ToISOString(28 * 60000)

\* The frame with its timestamp set to zero.
Unstamped(frame) ==
    IF IsStatus(frame) THEN frame ELSE Envelope(frame.topic, frame.data, 0)

\* The record of the run that is given the frames of hs, each at its
\* arrival time, with every timestamp set to zero.
RECURSIVE UnstampedRun(_, _)
UnstampedRun(prev, hs) ==
    IF hs = <<>> THEN prev
    ELSE UnstampedRun(OnMessageRecord(ServerConfig, prev, Unstamped(Head(hs).frame),
                                      Head(hs).at),
                      Tail(hs))

\* C35: the record does not depend on the envelopes' timestamps: a run ends
\* in the record of the run given the same topics and payloads at the same
\* arrival times with other timestamps.
C35_TimestampIgnored == data = UnstampedRun(INITIAL_DATA, handled)

C35_Witness ==
    /\ Len(handled) = 3
    /\ handled[2].at = 0
    /\ handled[2].frame =
          Envelope(RelayTopic("active_route_minutes_to_arrival"), "15", 2 * MS_PER_MINUTE)
    /\ handled[3].at = 60000
    /\ handled[3].frame = Envelope(RelayTopic("active_route"), ROUTE_OK, 7)
    /\ data.estArrivalTime = ToISOString(60000 + 28 * 60000)

----------------------------------------------------------------------------
(* Claims about the reconnect timers of one Link Manager *)

\* Socket s closes in this step.
Closes(s) == socks[s].readyState # "CLOSED" /\ socks'[s].readyState = "CLOSED"

\* C36: each socket close schedules exactly one reconnect, at most one
\* reconnect timer is pending at any time, and a reconnect never closes an
\* open socket: connect() on an open socket replaces it without a cycle of
\* closes and reconnects.
C36_OneReconnectPending ==
    /\ [](Len(timers) <= 1)
    /\ [][ /\ (\E s \in 1..Len(socks) : Closes(s)) => Len(timers') = Len(timers) + 1
           /\ Len(timers') < Len(timers) =>
                 \A s \in 1..Len(socks) :
                     socks[s].readyState = "OPEN" => socks'[s].readyState = "OPEN" ]_vars

====
